---- MODULE Spec2Model ----
(***************************************************************************)
(* Model of the subgraph construction and relationship-navigation engine   *)
(* of trustgraph-react-state: src/utils/knowledge-graph.ts (label          *)
(* resolver, triple fetcher, enrichment pipeline) and                      *)
(* src/utils/knowledge-graph-viz.ts (Subgraph merge, build, expand).       *)
(***************************************************************************)
EXTENDS Bags, FiniteSets, Integers, Sequences, TLC

VARIABLES
  sg,        \* the Subgraph value the caller currently holds
  prev,      \* the Subgraph value passed to the last updateSubgraphTriples
  passed,    \* what the object passed to that call holds after the call
  batch,     \* the statement batch passed to the last updateSubgraphTriples
  op,        \* the top-level call in flight (or the idle record)
  slots,     \* remote calls of the current stage, in launch order
  adds,      \* bag of add(label) calls made for the current call
  removes,   \* bag of remove(label) calls made for the current call
  activity,  \* the activity registry of the progress store
  sent,      \* triplesQuery requests issued by the current call, in order
  ncalls,    \* number of top-level calls (or merges) started so far
  cache,     \* useGraphSubgraph: the query data under the "graph-subgraph" key
  mutations, \* useGraphSubgraph: the mutations started, in start order
  settled,   \* useGraphSubgraph: the mutations settled, in settle order
  notified,  \* messages handed to notify.error, in order
  error,     \* useProgressStateStore: error
  session,   \* useSessionStore: flowId, flow, flowDescription
  hook,      \* outcome of the last render of useNotification
  log,       \* store and hook calls made so far, in order
  messages,  \* useConversation: the messages of the conversation
  input,     \* useConversation: the text in the input box
  entities,  \* useWorkbenchStateStore: entities
  chat       \* useChatSession: the chat mutation in flight (or at rest)

cacheVars == <<cache, mutations, settled, notified>>

storeVars == <<error, session, hook, log>>

chatVars == <<messages, input, entities, chat>>

\* state of the hooks and stores around the engine
hookVars == <<cacheVars, storeVars, chatVars>>

engineVars ==
  <<sg, prev, passed, batch, op, slots, adds, removes, activity, sent, ncalls>>

vars == <<engineVars, hookVars>>

-----------------------------------------------------------------------------
(* Term model *)

RDFS_LABEL == "http://www.w3.org/2000/01/rdf-schema#label"

Iri(x) == [t |-> "i", i |-> x]

Literal(x) == [t |-> "l", v |-> x]

Blank(x) == [t |-> "b", d |-> x]

Triple(s, p, o) == [s |-> s, p |-> p, o |-> o]

\* mutant: only IRI and literal terms have a value
getTermValue_noBlank(term) ==
  IF term.t = "i" THEN term.i
  ELSE IF term.t = "l" THEN term.v
  ELSE ""

getTermValue(term) ==
  IF term.t = "i" THEN term.i
  ELSE IF term.t = "l" THEN term.v
  ELSE IF term.t = "b" THEN term.d
  ELSE ""

isIri(term) == term.t = "i"

\* `x.label ? x.label : "unknown"`: an absent or empty label is falsy
labelOrUnknown(term) ==
  IF "label" \in DOMAIN term /\ term.label # "" THEN term.label ELSE "unknown"

\* `{ ...term, label: label }`
withLabel(term, label) == [label |-> label] @@ term

-----------------------------------------------------------------------------
(* Subgraph model and merge engine *)

createSubgraph == [nodes |-> <<>>, links |-> <<>>]

groupId == 1

linkValue == 1

SeqIds(s) == {s[k].id : k \in 1..Len(s)}

\* The for-loop of updateSubgraphTriples, one statement t at a time; st
\* carries the local variable sg together with the nodeIds and linkIds sets.
\* The local sg starts as the caller's object: st.input is what that object
\* holds, and ownNodes / ownLinks tell whether the nodes / links array of
\* the local sg is a copy made by the loop (`[...sg.nodes, n]`) or still the
\* caller's array (`{...sg, nodes: ...}` carries the links array over).

\* mutant: the `!nodeIds.has(sourceId)` test is dropped
mergeSource_noCheck(st, t) ==
  [st EXCEPT !.sg.nodes = Append(@, [id |-> getTermValue(t.s),
                                      label |-> labelOrUnknown(t.s),
                                      group |-> groupId])]

\* mutant: a known source node takes the label of the later statement
mergeSource_relabel(st, t) ==
  LET sourceId == getTermValue(t.s) IN
  IF sourceId \notin st.nodeIds
  THEN [st EXCEPT !.nodeIds = @ \cup {sourceId},
                  !.ownNodes = TRUE,
                  !.sg.nodes = Append(@, [id |-> sourceId,
                                          label |-> labelOrUnknown(t.s),
                                          group |-> groupId])]
  ELSE [st EXCEPT !.sg.nodes =
          [k \in 1..Len(@) |->
             IF @[k].id = sourceId
             THEN [@[k] EXCEPT !.label = labelOrUnknown(t.s)] ELSE @[k]]]

mergeSource(st, t) ==
  LET sourceId == getTermValue(t.s) IN
  IF sourceId \notin st.nodeIds
  THEN [st EXCEPT !.nodeIds = @ \cup {sourceId},
                  !.ownNodes = TRUE,
                  !.sg.nodes = Append(@, [id |-> sourceId,
                                          label |-> labelOrUnknown(t.s),
                                          group |-> groupId])]
  ELSE st

\* mutant: no node is made for the target
mergeTarget_noNode(st, t) == st

\* mutant: the `!nodeIds.has(targetId)` test is dropped
mergeTarget_noCheck(st, t) ==
  [st EXCEPT !.sg.nodes = Append(@, [id |-> getTermValue(t.o),
                                      label |-> labelOrUnknown(t.o),
                                      group |-> groupId])]

\* mutant: the new node is put in front of the existing ones
mergeTarget_prepend(st, t) ==
  LET targetId == getTermValue(t.o) IN
  IF targetId \notin st.nodeIds
  THEN [st EXCEPT !.nodeIds = @ \cup {targetId},
                  !.ownNodes = TRUE,
                  !.sg.nodes = <<[id |-> targetId,
                                  label |-> labelOrUnknown(t.o),
                                  group |-> groupId]>> \o @]
  ELSE st

mergeTarget(st, t) ==
  LET targetId == getTermValue(t.o) IN
  IF targetId \notin st.nodeIds
  THEN [st EXCEPT !.nodeIds = @ \cup {targetId},
                  !.ownNodes = TRUE,
                  !.sg.nodes = Append(@, [id |-> targetId,
                                          label |-> labelOrUnknown(t.o),
                                          group |-> groupId])]
  ELSE st

\* mutant: the link key leaves the predicate out
linkIdOf_noPredicate(t) == getTermValue(t.s) \o "@@" \o getTermValue(t.o)

linkIdOf(t) ==
  getTermValue(t.s) \o "@@" \o getTermValue(t.p) \o "@@" \o getTermValue(t.o)

\* mutant: the `!linkIds.has(linkId)` test is dropped
mergeLink_noCheck(st, t) ==
  [st EXCEPT !.sg.links = Append(@, [source |-> getTermValue(t.s),
                                      target |-> getTermValue(t.o),
                                      id |-> linkIdOf(t),
                                      label |-> labelOrUnknown(t.p),
                                      value |-> linkValue])]

\* mutant: `sg.links.push(l)`, the link is appended in place to whatever
\* array the local sg holds
mergeLink_push(st, t) ==
  LET linkId == linkIdOf(t)
      l == [source |-> getTermValue(t.s), target |-> getTermValue(t.o),
            id |-> linkId, label |-> labelOrUnknown(t.p), value |-> linkValue]
  IN
  IF linkId \notin st.linkIds
  THEN [st EXCEPT !.linkIds = @ \cup {linkId},
                  !.sg.links = Append(@, l),
                  !.input.links = IF st.ownLinks THEN @ ELSE Append(@, l)]
  ELSE st

mergeLink(st, t) ==
  LET linkId == linkIdOf(t) IN
  IF linkId \notin st.linkIds
  THEN [st EXCEPT !.linkIds = @ \cup {linkId},
                  !.ownLinks = TRUE,
                  !.sg.links = Append(@, [source |-> getTermValue(t.s),
                                          target |-> getTermValue(t.o),
                                          id |-> linkId,
                                          label |-> labelOrUnknown(t.p),
                                          value |-> linkValue])]
  ELSE st

\* mutant: the `!isIri(t.o)` skip is dropped
mergeStep_noSkip(st, t) == mergeLink(mergeTarget(mergeSource(st, t), t), t)

mergeStep(st, t) ==
  IF ~isIri(t.o) THEN st
  ELSE mergeLink(mergeTarget(mergeSource(st, t), t), t)

RECURSIVE mergeLoop(_, _)
mergeLoop(st, triples) ==
  IF triples = <<>> THEN st
  ELSE mergeLoop(mergeStep(st, Head(triples)), Tail(triples))

\* the whole call, up to `return sg`
runUpdateSubgraphTriples(g, triples) ==
  mergeLoop([sg |-> g, nodeIds |-> SeqIds(g.nodes), linkIds |-> SeqIds(g.links),
             input |-> g, ownNodes |-> FALSE, ownLinks |-> FALSE],
            triples)

updateSubgraphTriples(g, triples) == runUpdateSubgraphTriples(g, triples).sg

\* what the caller's object holds once the call has returned
inputAfter(g, triples) == runUpdateSubgraphTriples(g, triples).input

-----------------------------------------------------------------------------
(* Label resolver, triple fetcher and enrichment: pure parts *)

SKOS_DEFINITION == "http://www.w3.org/2004/02/skos/core#definition"

SCHEMAORG_SUBJECT_OF == "https://schema.org/subjectOf"

SCHEMAORG_DESCRIPTION == "https://schema.org/description"

\* Some pre-defined labels, not fetched from the graph
predefined ==
  (RDFS_LABEL :> "label") @@ (SKOS_DEFINITION :> "definition") @@
  (SCHEMAORG_SUBJECT_OF :> "subject of") @@
  (SCHEMAORG_DESCRIPTION :> "description") @@
  ("http://www.w3.org/1999/02/22-rdf-syntax-ns#type" :> "has type") @@
  ("https://schema.org/publication" :> "publication") @@
  ("https://schema.org/url" :> "url") @@
  ("https://schema.org/PublicationEvent" :> "publication event") @@
  ("https://schema.org/publishedBy" :> "published by") @@
  ("https://schema.org/DigitalDocument" :> "digital document") @@
  ("https://schema.org/startDate" :> "start date") @@
  ("https://schema.org/endDate" :> "end date") @@
  ("https://schema.org/name" :> "name") @@
  ("https://schema.org/copyrightNotice" :> "copyright notice") @@
  ("https://schema.org/copyrightHolder" :> "copyright holder") @@
  ("https://schema.org/copyrightYear" :> "copyright year") @@
  ("https://schema.org/keywords" :> "keywords")

\* Default triple limit on queries
LIMIT == 30

\* limit of the single query of queryLabel
LABEL_LIMIT == 1

\* limit of the directed query of updateSubgraphByRelationship
RELATIONSHIP_LIMIT == 20

\* mutant: the caller's limit is ignored
limitOrDefault_ignored(limit) == LIMIT

\* `limit ? limit : LIMIT`; an undefined limit is written 0
limitOrDefault(limit) == IF limit # 0 THEN limit ELSE LIMIT

\* the wildcard (undefined) argument of triplesQuery
Undefined == [t |-> "undefined"]

\* an omitted collection argument
undefinedCollection == "(undefined)"

Request(s, p, o, limit, collection) ==
  [s |-> s, p |-> p, o |-> o, limit |-> limit, collection |-> collection]

\* mutant: no fallback, an empty response yields the empty string
labelOfResponse_noFallback(triples, uri) ==
  IF Len(triples) > 0 THEN getTermValue(triples[1].o) ELSE ""

\* the first .then of queryLabel: the label out of the response
labelOfResponse(triples, uri) ==
  IF Len(triples) > 0 THEN getTermValue(triples[1].o) ELSE uri

\* mutant: the test looks at the object instead of the predicate
keepTriple_objectTest(t) == ~(isIri(t.o) /\ t.o.i = RDFS_LABEL)

\* Filter out 'structural' edges nobody needs to see
keepTriple(t) == ~(isIri(t.p) /\ t.p.i = RDFS_LABEL)

filterInternals(triples) == SelectSeq(triples, keepTriple)

-----------------------------------------------------------------------------
(* Activity registry (state/progress): a reference-counted multiset of     *)
(* labels; the set `activity` the store exposes is its support.            *)

addActivity(reg, act) == reg (+) SetToBag({act})

\* mutant: a boolean set, one remove deletes the label whatever its count
removeActivity_set(reg, act) == [x \in DOMAIN reg \ {act} |-> reg[x]]

removeActivity(reg, act) == reg (-) SetToBag({act})

activeLabels(reg) == BagToSet(reg)

RECURSIVE addAll(_, _)
addAll(reg, acts) ==
  IF acts = <<>> THEN reg ELSE addAll(addActivity(reg, Head(acts)), Tail(acts))

RECURSIVE removeAll(_, _)
removeAll(reg, acts) ==
  IF acts = <<>> THEN reg
  ELSE removeAll(removeActivity(reg, Head(acts)), Tail(acts))

RECURSIVE countAll(_, _)
countAll(bag, acts) ==
  IF acts = <<>> THEN bag
  ELSE countAll(bag (+) SetToBag({Head(acts)}), Tail(acts))

-----------------------------------------------------------------------------
(* Remote calls in flight.  A slot is one remote call (or an immediately   *)
(* resolved promise) of the current stage, with the reaction the code      *)
(* attached to it; slots are kept in launch order, which is the order of   *)
(* the array given to Promise.all.                                         *)

Slot(kind, uri, act, st, label, req) ==
  [kind |-> kind, uri |-> uri, act |-> act, st |-> st, res |-> <<>>,
   label |-> label, err |-> "", req |-> req]

\* queryS: add("Query S: " + uri), triplesQuery(s = uri, -, -)
queryS(uri, limit, collection) ==
  Slot("S", uri, "Query S: " \o uri, "pending", "",
       Request(Iri(uri), Undefined, Undefined, limitOrDefault(limit), collection))

\* queryP: add("Query P: " + uri), triplesQuery(-, p = uri, -)
queryP(uri, limit, collection) ==
  Slot("P", uri, "Query P: " \o uri, "pending", "",
       Request(Undefined, Iri(uri), Undefined, limitOrDefault(limit), collection))

\* queryO: add("Query O: " + uri), triplesQuery(-, -, o = uri)
queryO(uri, limit, collection) ==
  Slot("O", uri, "Query O: " \o uri, "pending", "",
       Request(Undefined, Undefined, Iri(uri), limitOrDefault(limit), collection))

queryAct(uri) == "Query: " \o uri

\* mutant: no short-circuit, every uri is looked up remotely
queryLabel_noShortCircuit(uri, collection) ==
  Slot("label", uri, "Label " \o uri, "pending", "",
       Request(Iri(uri), Iri(RDFS_LABEL), Undefined, LABEL_LIMIT, collection))

\* queryLabel up to its remote call: a predefined uri resolves at once, with
\* no add and no request; any other uri adds "Label " + uri and asks for
\* (s = uri, p = RDFS_LABEL, o = -, limit 1)
queryLabel(uri, collection) ==
  IF uri \in DOMAIN predefined
  THEN Slot("label", uri, "", "now", predefined[uri], Undefined)
  ELSE Slot("label", uri, "Label " \o uri, "pending", "",
            Request(Iri(uri), Iri(RDFS_LABEL), Undefined, LABEL_LIMIT, collection))

\* the else-branch of labelO: the literal's own value, resolved at once
literalLabel(term) == Slot("literal", "", "", "now", getTermValue(term), Undefined)

labelS(triples, collection) ==
  [k \in 1..Len(triples) |-> queryLabel(getTermValue(triples[k].s), collection)]

labelP(triples, collection) ==
  [k \in 1..Len(triples) |-> queryLabel(getTermValue(triples[k].p), collection)]

\* mutant: every object is looked up, whatever its kind
labelO_lookupAll(triples, collection) ==
  [k \in 1..Len(triples) |-> queryLabel(getTermValue(triples[k].o), collection)]

labelO(triples, collection) ==
  [k \in 1..Len(triples) |->
     IF isIri(triples[k].o) THEN queryLabel(triples[k].o.i, collection)
     ELSE literalLabel(triples[k].o)]

\* the per-statement .then of a label step: a new statement whose slot
\* carries the label
labelledS(triples, ss) ==
  [k \in 1..Len(triples) |-> [triples[k] EXCEPT !.s = withLabel(@, ss[k].label)]]

labelledP(triples, ss) ==
  [k \in 1..Len(triples) |-> [triples[k] EXCEPT !.p = withLabel(@, ss[k].label)]]

labelledO(triples, ss) ==
  [k \in 1..Len(triples) |-> [triples[k] EXCEPT !.o = withLabel(@, ss[k].label)]]

\* mutant: the .then of labelS writes the label into the statement it got
inputAfterLabelS_inPlace(triples, ss) == labelledS(triples, ss)

\* what the statements handed to a label step hold once its .then
\* handlers ran: `{...t, s: {...t.s, label}}` builds new objects out of
\* copies and assigns to no field of t or of its terms
inputAfterLabelS(triples, ss) == triples

inputAfterLabelP(triples, ss) == triples

inputAfterLabelO(triples, ss) == triples

followingAct(direction, relationshipUri) ==
  "Following " \o direction \o " relationship: " \o relationshipUri

\* mutant: the direction test is inverted
directedQuery_inverted(selectedNodeId, relationshipUri, direction, collection) ==
  Slot("dir", selectedNodeId, followingAct(direction, relationshipUri),
       "pending", "",
       IF direction = "incoming"
       THEN Request(Iri(selectedNodeId), Iri(relationshipUri), Undefined,
                    RELATIONSHIP_LIMIT, collection)
       ELSE Request(Undefined, Iri(relationshipUri), Iri(selectedNodeId),
                    RELATIONSHIP_LIMIT, collection))

\* the directed query of updateSubgraphByRelationship
directedQuery(selectedNodeId, relationshipUri, direction, collection) ==
  Slot("dir", selectedNodeId, followingAct(direction, relationshipUri),
       "pending", "",
       IF direction = "outgoing"
       THEN Request(Iri(selectedNodeId), Iri(relationshipUri), Undefined,
                    RELATIONSHIP_LIMIT, collection)
       ELSE Request(Undefined, Iri(relationshipUri), Iri(selectedNodeId),
                    RELATIONSHIP_LIMIT, collection))

launched(ss) == SelectSeq(ss, LAMBDA x : x.st = "pending")

actsOf(ss) == [k \in 1..Len(ss) |-> ss[k].act]

reqsOf(ss) == [k \in 1..Len(ss) |-> ss[k].req]

-----------------------------------------------------------------------------
(* Engine state and the effects of one handler *)

NewOp(kind, uri, rel, dir, collection, limit, g, stage) ==
  [kind |-> kind, uri |-> uri, rel |-> rel, dir |-> dir,
   collection |-> collection, limit |-> limit, g |-> g, stage |-> stage,
   data |-> <<>>, fetched |-> <<>>, arrival |-> <<>>, allErr |-> "", status |-> "pending",
   err |-> "",
   label |-> "", out |-> g, merged |-> FALSE,
   step |-> "", stepIn |-> <<>>, stepInAfter |-> <<>>, stepOut |-> <<>>]

Idle == NewOp("idle", "", "", "", "", 0, createSubgraph, "idle")

\* add(act) for each of newAdds, remove(act) for each of newRemoves, and the
\* requests handed to socket.triplesQuery
Effects(newAdds, newRemoves, newSent) ==
  /\ adds' = countAll(adds, newAdds)
  /\ removes' = countAll(removes, newRemoves)
  /\ activity' = removeAll(addAll(activity, newAdds), newRemoves)
  /\ sent' = sent \o newSent

Launch(ss) == Effects(actsOf(launched(ss)), <<>>, reqsOf(launched(ss)))

AllOk == \A k \in 1..Len(slots) : slots[k].st \in {"ok", "now"}

NonePending == \A k \in 1..Len(slots) : slots[k].st # "pending"

-----------------------------------------------------------------------------
(* Bounded inputs of the merge engine *)

MaxBatchLen == 2

MaxMerges == 2

MaxMergesAny == 1

\* Enriched statements as the pipeline hands them to the merge: IRI objects
\* (labelled or not), a self-loop, the reverse edge, a literal object on a
\* subject of its own, and a blank-node object whose value is a node id.
MergeTriples ==
  { Triple(withLabel(Iri("A"), "Alice"), withLabel(Iri("knows"), "knows"),
           withLabel(Iri("B"), "Bob")),
    Triple(withLabel(Iri("B"), "Bob"), withLabel(Iri("knows"), "knows"),
           withLabel(Iri("A"), "Alice")),
    Triple(Iri("A"), Iri("knows"), Iri("B")),
    Triple(withLabel(Iri("A"), "Alice"), withLabel(Iri("knows"), "knows"),
           withLabel(Iri("A"), "Alice")),
    Triple(withLabel(Iri("C"), "Carol"), withLabel(Iri("name"), "name"),
           withLabel(Literal("B"), "B")),
    Triple(withLabel(Iri("A"), "Alice"), withLabel(Iri("knows"), "knows"),
           withLabel(Blank("B"), "B")) }

SeqsUpTo(S, n) == UNION {[1..k -> S] : k \in 0..n}

MergeBatches == SeqsUpTo(MergeTriples, MaxBatchLen)

\* Subgraph values a caller may pass in that no merge from createSubgraph()
\* produces: a repeated node entry, and a link whose endpoints are no nodes.
OtherSubgraphs ==
  { createSubgraph,
    [nodes |-> <<[id |-> "A", label |-> "Alice", group |-> groupId]>>,
     links |-> <<[source |-> "A", target |-> "A", id |-> "A@@knows@@A",
                  label |-> "knows", value |-> linkValue]>>],
    [nodes |-> <<[id |-> "B", label |-> "Bob", group |-> groupId],
                 [id |-> "A", label |-> "A", group |-> groupId]>>,
     links |-> <<[source |-> "B", target |-> "A", id |-> "B@@knows@@A",
                  label |-> "knows", value |-> linkValue]>>],
    [nodes |-> <<[id |-> "A", label |-> "Alice", group |-> groupId],
                 [id |-> "A", label |-> "Alice", group |-> groupId]>>,
     links |-> <<>>],
    [nodes |-> <<>>,
     links |-> <<[source |-> "A", target |-> "B", id |-> "A@@knows@@B",
                  label |-> "knows", value |-> linkValue]>>] }

-----------------------------------------------------------------------------
(* The engine at rest: no call in flight *)

EngineIdle ==
  /\ op = Idle
  /\ slots = <<>>
  /\ adds = EmptyBag
  /\ removes = EmptyBag
  /\ activity = EmptyBag
  /\ sent = <<>>
  /\ ncalls = 0

\* JS null
null == "(null)"

\* the local variables of a streaming callback: the text accumulated and
\* whether its message has been added
NoStream == [accumulated |-> "", messageAdded |-> FALSE]

NoStreams ==
  [k \in {"chunk", "thinking", "observation", "answer"} |-> NoStream]

\* no chat mutation has been started
ChatIdle ==
  [phase |-> "idle", chatMode |-> "", input |-> "",
   streams |-> NoStreams, ncallbacks |-> 0, labels |-> <<>>, allErr |-> Undefined,
   response |-> "", err |-> Undefined, submits |-> 0]

\* create<SessionState>()((set) => ({ flowId: "default", flow: null, ... }))
sessionInitial == [flowId |-> "default", flow |-> null, flowDescription |-> ""]

NotRendered == [outcome |-> "none", value |-> ""]

\* the hooks before their first render and the stores as created: no query
\* data, no mutation started, no store call made
HooksIdle ==
  /\ cache = Undefined
  /\ mutations = <<>>
  /\ settled = <<>>
  /\ notified = <<>>
  /\ error = ""
  /\ session = sessionInitial
  /\ hook = NotRendered
  /\ log = <<>>
  /\ messages = <<>>
  /\ input = ""
  /\ entities = <<>>
  /\ chat = ChatIdle

-----------------------------------------------------------------------------
(* Bounded inputs of the engine *)

MaxCalls == 2

CallUris == {"A"}

\* identifiers queryLabel is called with: one with a label statement in the
\* store, one with none, and every key of the predefined table
LabelUris == CallUris \cup {"B"} \cup DOMAIN predefined

Collections == {"library", undefinedCollection}

Limits == {0, 5}

Directions == {"incoming", "outgoing"}

\* the error a remote call is rejected with names the call: distinct calls
\* of one stage fail with distinct errors
ErrorsOf(i) == {"request " \o ToString(i) \o " failed"}

\* result lists the remote service may answer a pattern query with
QueryResponses ==
  { <<>>,
    <<Triple(Iri("A"), Iri("knows"), Iri("B"))>>,
    <<Triple(Iri("A"), Iri(RDFS_LABEL), Literal("Alice"))>> }

\* result lists the remote service may answer a label query with: "A" has a
\* label statement in the store, every other identifier has none
LabelResponses(uri) ==
  IF uri = "A" THEN {<<Triple(Iri(uri), Iri(RDFS_LABEL), Literal("Alice"))>>}
  ELSE {<<>>}

-----------------------------------------------------------------------------
(* Top-level calls *)

CanCall == op.kind = "idle" /\ ncalls < MaxCalls

\* queryLabel(socket, uri, add, remove, collection)
CallQueryLabel(uri, collection) ==
  /\ CanCall
  /\ LET sl == queryLabel(uri, collection) IN
       /\ slots' = <<sl>>
       /\ op' = [NewOp("queryLabel", uri, "", "", collection, 0, sg, "label")
                   EXCEPT !.status = IF sl.st = "now" THEN "resolved" ELSE "pending",
                          !.label = sl.label]
       /\ Launch(<<sl>>)
  /\ ncalls' = ncalls + 1
  /\ UNCHANGED <<sg, prev, passed, batch, hookVars>>

\* mutant: a waterfall, only queryS is issued by the call itself
queryFanOut_waterfall(uri, limit, collection) == <<queryS(uri, limit, collection)>>

\* the body of query: add("Query: " + uri), then queryS, queryP, queryO
queryFanOut(uri, limit, collection) ==
  <<queryS(uri, limit, collection), queryP(uri, limit, collection),
    queryO(uri, limit, collection)>>

StartQuery(kind, uri, limit, collection) ==
  LET ss == queryFanOut(uri, limit, collection) IN
    /\ slots' = ss
    /\ op' = NewOp(kind, uri, "", "", collection, limit, sg, "query")
    /\ Effects(<<queryAct(uri)>> \o actsOf(ss), <<>>, reqsOf(ss))

\* query(socket, uri, add, remove, limit, collection)
CallQuery(uri, limit, collection) ==
  /\ CanCall
  /\ StartQuery("query", uri, limit, collection)
  /\ ncalls' = ncalls + 1
  /\ UNCHANGED <<sg, prev, passed, batch, hookVars>>

\* updateSubgraph(socket, uri, sg, add, remove, collection): query is called
\* with limit undefined
CallUpdateSubgraph(uri, collection) ==
  /\ CanCall
  /\ StartQuery("updateSubgraph", uri, 0, collection)
  /\ ncalls' = ncalls + 1
  /\ UNCHANGED <<sg, prev, passed, batch, hookVars>>

\* updateSubgraphByRelationship(socket, selectedNodeId, relationshipUri,
\* direction, sg, add, remove, collection) up to its return
CallUpdateSubgraphByRelationship(selectedNodeId, relationshipUri, direction, collection) ==
  /\ CanCall
  /\ LET sl == directedQuery(selectedNodeId, relationshipUri, direction,
                             collection) IN
       /\ slots' = <<sl>>
       /\ op' = NewOp("expand", selectedNodeId, relationshipUri, direction,
                      collection, 0, sg, "directed")
       /\ Launch(<<sl>>)
  /\ ncalls' = ncalls + 1
  /\ UNCHANGED <<sg, prev, passed, batch, hookVars>>

-----------------------------------------------------------------------------
(* Reactions to a settled remote call *)

\* queryS/queryP/queryO .then: remove(act); return x
SubQueryThen(i, r) ==
  /\ slots[i].kind \in {"S", "P", "O"} /\ slots[i].st = "pending"
  /\ slots' = [slots EXCEPT ![i].st = "ok", ![i].res = r]
  /\ op' = [op EXCEPT !.arrival = Append(@, i)]
  /\ Effects(<<>>, <<slots[i].act>>, <<>>)
  /\ UNCHANGED <<sg, prev, passed, batch, hookVars, ncalls>>

\* mutant: the catch rethrows without remove(act)
SubQueryCatch_noRemove(i, e) ==
  /\ slots[i].kind \in {"S", "P", "O"} /\ slots[i].st = "pending"
  /\ slots' = [slots EXCEPT ![i].st = "err", ![i].err = e]
  /\ op' = [op EXCEPT !.allErr = IF @ = "" THEN e ELSE @,
                      !.arrival = Append(@, i)]
  /\ UNCHANGED <<adds, removes, activity, sent, sg, prev, passed, batch, hookVars,
                 ncalls>>

\* queryS/queryP/queryO .catch: remove(act); throw err.  Promise.all rejects
\* with the first rejection it sees.
SubQueryCatch(i, e) ==
  /\ slots[i].kind \in {"S", "P", "O"} /\ slots[i].st = "pending"
  /\ slots' = [slots EXCEPT ![i].st = "err", ![i].err = e]
  /\ op' = [op EXCEPT !.allErr = IF @ = "" THEN e ELSE @,
                      !.arrival = Append(@, i)]
  /\ Effects(<<>>, <<slots[i].act>>, <<>>)
  /\ UNCHANGED <<sg, prev, passed, batch, hookVars, ncalls>>

\* queryLabel .then(.then): the label out of the response, remove(act)
QueryLabelThen(i, r) ==
  /\ slots[i].kind = "label" /\ slots[i].st = "pending"
  /\ LET label == labelOfResponse(r, slots[i].uri) IN
       /\ slots' = [slots EXCEPT ![i].st = "ok", ![i].res = r, ![i].label = label]
       /\ op' = IF op.kind = "queryLabel"
                THEN [op EXCEPT !.status = "resolved", !.label = label,
                                !.arrival = Append(@, i)]
                ELSE [op EXCEPT !.arrival = Append(@, i)]
  /\ Effects(<<>>, <<slots[i].act>>, <<>>)
  /\ UNCHANGED <<sg, prev, passed, batch, hookVars, ncalls>>

\* mutant: the catch rethrows without remove(act)
QueryLabelCatch_noRemove(i, e) ==
  /\ slots[i].kind = "label" /\ slots[i].st = "pending"
  /\ slots' = [slots EXCEPT ![i].st = "err", ![i].err = e]
  /\ op' = IF op.status = "pending"
           THEN [op EXCEPT !.status = "rejected", !.err = e,
                           !.arrival = Append(@, i)]
           ELSE [op EXCEPT !.arrival = Append(@, i)]
  /\ UNCHANGED <<adds, removes, activity, sent, sg, prev, passed, batch, hookVars,
                 ncalls>>

\* queryLabel .catch: remove(act); throw err.  Inside a label step the
\* rejection goes through Promise.all and the rest of the chain, which has
\* no catch, to the caller.
QueryLabelCatch(i, e) ==
  /\ slots[i].kind = "label" /\ slots[i].st = "pending"
  /\ slots' = [slots EXCEPT ![i].st = "err", ![i].err = e]
  /\ op' = IF op.status = "pending"
           THEN [op EXCEPT !.status = "rejected", !.err = e,
                           !.arrival = Append(@, i)]
           ELSE [op EXCEPT !.arrival = Append(@, i)]
  /\ Effects(<<>>, <<slots[i].act>>, <<>>)
  /\ UNCHANGED <<sg, prev, passed, batch, hookVars, ncalls>>

\* mutant: an empty answer is turned into a rejection
DirectedThen_emptyRejects(i, r) ==
  /\ slots[i].kind = "dir" /\ slots[i].st = "pending"
  /\ slots' = [slots EXCEPT ![i].st = "ok", ![i].res = r]
  /\ op' = [op EXCEPT !.stage = "fetched", !.data = r, !.fetched = r,
                      !.status = IF r = <<>> THEN "rejected" ELSE @,
                      !.err = IF r = <<>> THEN "no statements" ELSE @,
                      !.arrival = Append(@, i)]
  /\ Effects(<<>>, <<slots[i].act>>, <<>>)
  /\ UNCHANGED <<sg, prev, passed, batch, hookVars, ncalls>>

\* updateSubgraphByRelationship: queryPromise.then: remove(activityName)
DirectedThen(i, r) ==
  /\ slots[i].kind = "dir" /\ slots[i].st = "pending"
  /\ slots' = [slots EXCEPT ![i].st = "ok", ![i].res = r]
  /\ op' = [op EXCEPT !.stage = "fetched", !.data = r, !.fetched = r,
                      !.arrival = Append(@, i)]
  /\ Effects(<<>>, <<slots[i].act>>, <<>>)
  /\ UNCHANGED <<sg, prev, passed, batch, hookVars, ncalls>>

\* updateSubgraphByRelationship: queryPromise rejects; the chain has no
\* catch, the rejection reaches the caller
DirectedReject(i, e) ==
  /\ slots[i].kind = "dir" /\ slots[i].st = "pending"
  /\ slots' = [slots EXCEPT ![i].st = "err", ![i].err = e]
  /\ op' = [op EXCEPT !.status = "rejected", !.err = e, !.arrival = Append(@, i)]
  /\ UNCHANGED <<adds, removes, activity, sent, sg, prev, passed, batch, hookVars,
                 ncalls>>

\* mutant: the results are concatenated in the order the responses arrived
QueryThen_arrivalOrder ==
  /\ op.stage = "query" /\ op.status = "pending" /\ AllOk
  /\ LET x == slots[op.arrival[1]].res \o slots[op.arrival[2]].res
                 \o slots[op.arrival[3]].res IN
       op' = IF op.kind = "query"
             THEN [op EXCEPT !.status = "resolved", !.data = x, !.fetched = x,
                             !.stage = "done"]
             ELSE [op EXCEPT !.data = x, !.fetched = x, !.stage = "fetched"]
  /\ Effects(<<>>, <<queryAct(op.uri)>>, <<>>)
  /\ UNCHANGED <<slots, sg, prev, passed, batch, hookVars, ncalls>>

\* query: Promise.all(...).then(concat).then: remove(act); return x
QueryThen ==
  /\ op.stage = "query" /\ op.status = "pending" /\ AllOk
  /\ LET x == slots[1].res \o slots[2].res \o slots[3].res IN
       op' = IF op.kind = "query"
             THEN [op EXCEPT !.status = "resolved", !.data = x, !.fetched = x,
                             !.stage = "done"]
             ELSE [op EXCEPT !.data = x, !.fetched = x, !.stage = "fetched"]
  /\ Effects(<<>>, <<queryAct(op.uri)>>, <<>>)
  /\ UNCHANGED <<slots, sg, prev, passed, batch, hookVars, ncalls>>

\* mutant: the catch removes the activity and returns an empty list
QueryCatch_swallow ==
  /\ op.stage = "query" /\ op.status = "pending" /\ op.allErr # ""
  /\ op' = IF op.kind = "query"
           THEN [op EXCEPT !.status = "resolved", !.stage = "done"]
           ELSE [op EXCEPT !.stage = "fetched"]
  /\ Effects(<<>>, <<queryAct(op.uri)>>, <<>>)
  /\ UNCHANGED <<slots, sg, prev, passed, batch, hookVars, ncalls>>

\* query: Promise.all(...) rejected, .catch: remove(act); throw err
QueryCatch ==
  /\ op.stage = "query" /\ op.status = "pending" /\ op.allErr # ""
  /\ op' = [op EXCEPT !.status = "rejected", !.err = op.allErr]
  /\ Effects(<<>>, <<queryAct(op.uri)>>, <<>>)
  /\ UNCHANGED <<slots, sg, prev, passed, batch, hookVars, ncalls>>

\* .then((d) => labelS(socket, d, add, remove, collection))
LabelSCall ==
  /\ op.stage = "fetched" /\ op.status = "pending"
  /\ LET ss == labelS(op.data, op.collection) IN
       /\ slots' = ss
       /\ Launch(ss)
  /\ op' = [op EXCEPT !.stage = "labelS", !.arrival = <<>>]
  /\ UNCHANGED <<sg, prev, passed, batch, hookVars, ncalls>>

\* mutant: labelP starts as soon as one labelS lookup has completed
LabelPCall_early ==
  /\ op.stage = "labelS" /\ op.status = "pending"
  /\ \E k \in 1..Len(slots) : slots[k].st \in {"ok", "now"}
  /\ LET d == labelledS(op.data, slots)
         ss == labelP(d, op.collection) IN
       /\ slots' = ss
       /\ Launch(ss)
       /\ op' = [op EXCEPT !.stage = "labelP", !.data = d, !.arrival = <<>>,
                           !.step = "s", !.stepIn = op.data, !.stepOut = d,
                           !.stepInAfter = inputAfterLabelS(op.data, slots)]
  /\ UNCHANGED <<sg, prev, passed, batch, hookVars, ncalls>>

\* .then((d) => labelP(socket, d, add, remove, collection))
LabelPCall ==
  /\ op.stage = "labelS" /\ op.status = "pending" /\ AllOk
  /\ LET d == labelledS(op.data, slots)
         ss == labelP(d, op.collection) IN
       /\ slots' = ss
       /\ Launch(ss)
       /\ op' = [op EXCEPT !.stage = "labelP", !.data = d, !.arrival = <<>>,
                           !.step = "s", !.stepIn = op.data, !.stepOut = d,
                           !.stepInAfter = inputAfterLabelS(op.data, slots)]
  /\ UNCHANGED <<sg, prev, passed, batch, hookVars, ncalls>>

\* .then((d) => labelO(socket, d, add, remove, collection))
LabelOCall ==
  /\ op.stage = "labelP" /\ op.status = "pending" /\ AllOk
  /\ LET d == labelledP(op.data, slots)
         ss == labelO(d, op.collection) IN
       /\ slots' = ss
       /\ Launch(ss)
       /\ op' = [op EXCEPT !.stage = "labelO", !.data = d, !.arrival = <<>>,
                           !.step = "p", !.stepIn = op.data, !.stepOut = d,
                           !.stepInAfter = inputAfterLabelP(op.data, slots)]
  /\ UNCHANGED <<sg, prev, passed, batch, hookVars, ncalls>>

\* mutant: the fetched statements are merged into a fresh Subgraph
MergeThen_fresh ==
  /\ op.stage = "labelO" /\ op.status = "pending" /\ AllOk
  /\ LET d == filterInternals(labelledO(op.data, slots)) IN
       /\ op' = [op EXCEPT !.stage = "done", !.status = "resolved", !.data = d,
                           !.out = updateSubgraphTriples(createSubgraph, d),
                           !.merged = TRUE,
                           !.step = "o", !.stepIn = op.data,
                           !.stepOut = labelledO(op.data, slots),
                           !.stepInAfter = inputAfterLabelO(op.data, slots)]
       /\ prev' = op.g
       /\ passed' = inputAfter(op.g, d)
       /\ batch' = d
  /\ UNCHANGED <<slots, adds, removes, activity, sent, sg, ncalls, hookVars>>

\* .then((d) => filterInternals(d)).then((d) => updateSubgraphTriples(sg, d))
MergeThen ==
  /\ op.stage = "labelO" /\ op.status = "pending" /\ AllOk
  /\ LET d == filterInternals(labelledO(op.data, slots)) IN
       /\ op' = [op EXCEPT !.stage = "done", !.status = "resolved", !.data = d,
                           !.out = updateSubgraphTriples(op.g, d),
                           !.merged = TRUE,
                           !.step = "o", !.stepIn = op.data,
                           !.stepOut = labelledO(op.data, slots),
                           !.stepInAfter = inputAfterLabelO(op.data, slots)]
       /\ prev' = op.g
       /\ passed' = inputAfter(op.g, d)
       /\ batch' = d
  /\ UNCHANGED <<slots, adds, removes, activity, sent, sg, ncalls, hookVars>>

\* The caller sees the call settled and every remote call answered; a
\* resolved build or expand replaces the Subgraph it holds (onSuccess).
Return ==
  /\ op.kind # "idle" /\ op.status # "pending" /\ NonePending
  /\ sg' = IF op.merged THEN op.out ELSE sg
  /\ op' = Idle
  /\ slots' = <<>>
  /\ adds' = EmptyBag
  /\ removes' = EmptyBag
  /\ sent' = <<>>
  /\ UNCHANGED <<activity, prev, passed, batch, hookVars, ncalls>>

Init ==
  /\ sg = createSubgraph
  /\ prev = createSubgraph
  /\ passed = createSubgraph
  /\ batch = <<>>
  /\ EngineIdle
  /\ HooksIdle

Next ==
  \/ \E uri \in LabelUris, c \in Collections :
       CallQueryLabel(uri, c)
  \/ \E uri \in CallUris, l \in Limits, c \in Collections : CallQuery(uri, l, c)
  \/ \E uri \in CallUris, c \in Collections : CallUpdateSubgraph(uri, c)
  \/ \E n \in CallUris, d \in Directions, c \in Collections :
       CallUpdateSubgraphByRelationship(n, "knows", d, c)
  \/ \E i \in 1..Len(slots) :
       \/ \E r \in QueryResponses : SubQueryThen(i, r)
       \/ \E e \in ErrorsOf(i) : SubQueryCatch(i, e)
       \/ \E r \in LabelResponses(slots[i].uri) : QueryLabelThen(i, r)
       \/ \E e \in ErrorsOf(i) : QueryLabelCatch(i, e)
       \/ \E r \in QueryResponses : DirectedThen(i, r)
       \/ \E e \in ErrorsOf(i) : DirectedReject(i, e)
  \/ QueryThen
  \/ QueryCatch
  \/ LabelSCall
  \/ LabelPCall
  \/ LabelOCall
  \/ MergeThen
  \/ Return

Spec == Init /\ [][Next]_vars

\* the Subgraph on screen when a node is clicked: the focal build of "C",
\* whose only statement is [C knows A]
ClickedSubgraph ==
  updateSubgraphTriples(createSubgraph,
    <<Triple(withLabel(Iri("C"), "C"), withLabel(Iri("knows"), "knows"),
             withLabel(Iri("A"), "Alice"))>>)

\* the engine called on an empty Subgraph (focal build) or on a populated
\* one (node click)
InitClick ==
  /\ sg \in {createSubgraph, ClickedSubgraph}
  /\ prev = createSubgraph
  /\ passed = createSubgraph
  /\ batch = <<>>
  /\ EngineIdle
  /\ HooksIdle

SpecClick == InitClick /\ [][Next]_vars

-----------------------------------------------------------------------------
(* Merge sequences: the caller folds batch after batch into its Subgraph *)

InitMerge ==
  /\ sg = createSubgraph
  /\ prev = createSubgraph
  /\ passed = createSubgraph
  /\ batch = <<>>
  /\ EngineIdle
  /\ HooksIdle

InitMergeAny ==
  /\ sg \in OtherSubgraphs
  /\ prev = sg
  /\ passed = sg
  /\ batch = <<>>
  /\ EngineIdle
  /\ HooksIdle

\* sg = updateSubgraphTriples(sg, b), as the caller does it
mergeCall(b) ==
  /\ ncalls' = ncalls + 1
  /\ prev' = sg
  /\ batch' = b
  /\ LET run == runUpdateSubgraphTriples(sg, b) IN
       /\ sg' = run.sg
       /\ passed' = run.input
  /\ UNCHANGED <<op, slots, adds, removes, activity, sent, hookVars>>

Merge(b) == ncalls < MaxMerges /\ mergeCall(b)

NextMerge == \E b \in MergeBatches : Merge(b)

SpecMerge == InitMerge /\ [][NextMerge]_vars

\* a merge into a Subgraph the caller got from anywhere
MergeAny(b) == ncalls < MaxMergesAny /\ mergeCall(b)

NextMergeAny == \E b \in MergeBatches : MergeAny(b)

SpecMergeAny == InitMergeAny /\ [][NextMergeAny]_vars

\* statements whose terms carry a label, an empty label or none, and that
\* disagree on the label of one identifier
LabelTriples ==
  { Triple(withLabel(Iri("A"), "Alice"), withLabel(Iri("knows"), "knows"),
           withLabel(Iri("B"), "Bob")),
    Triple(Iri("A"), Iri("knows"), Iri("B")),
    Triple(Iri("C"), Iri("knows"), withLabel(Iri("A"), "")),
    Triple(withLabel(Iri("A"), "Al"), withLabel(Iri("knows"), "met"),
           withLabel(Iri("B"), "Bo")),
    Triple(withLabel(Iri("C"), "Carol"), withLabel(Iri("name"), "name"),
           withLabel(Literal("B"), "B")) }

LabelBatches == SeqsUpTo(LabelTriples, MaxBatchLen)

MergeLabelled(b) == ncalls < MaxMerges /\ mergeCall(b)

NextLabels == \E b \in LabelBatches : MergeLabelled(b)

SpecLabels == InitMerge /\ [][NextLabels]_vars

-----------------------------------------------------------------------------
(* Claims about the merge engine *)

NodeIdList(g) == [k \in 1..Len(g.nodes) |-> g.nodes[k].id]

LinkIdList(g) == [k \in 1..Len(g.links) |-> g.links[k].id]

Distinct(s) == Cardinality({s[k] : k \in 1..Len(s)}) = Len(s)

\* C1: after any sequence of merges from createSubgraph(), the number of
\* distinct node ids equals the number of node entries.
C1_NoDuplicateNodes == Distinct(NodeIdList(sg))

\* C1 witness: a batch that repeats a statement and holds a statement whose
\* subject and object are the same id was merged, and nodes came out of it.
C1_Witness ==
  /\ Len(batch) = 2
  /\ \E k \in 1..Len(batch) :
       isIri(batch[k].o) /\ getTermValue(batch[k].s) = getTermValue(batch[k].o)
  /\ \E j, k \in 1..Len(batch) : j # k /\ linkIdOf(batch[j]) = linkIdOf(batch[k])
  /\ Len(sg.nodes) >= 1

\* C2: after any sequence of merges from createSubgraph(), the number of
\* distinct link keys equals the number of link entries.
C2_NoDuplicateLinks == Distinct(LinkIdList(sg))

\* C2 witness: a statement already merged in an earlier round is merged again,
\* twice in one batch, and the Subgraph holds its link.
C2_Witness ==
  /\ ncalls = 2
  /\ Len(batch) = 2
  /\ linkIdOf(batch[1]) = linkIdOf(batch[2])
  /\ isIri(batch[1].o)
  /\ linkIdOf(batch[1]) \in SeqIds(prev.links)
  /\ linkIdOf(batch[1]) \in SeqIds(sg.links)

\* C3: merging the batch that was just merged once more changes nothing:
\* updateSubgraphTriples(updateSubgraphTriples(g, b), b) has the same nodes and
\* links, in the same order, as updateSubgraphTriples(g, b).
C3_IdempotentMerge ==
  ncalls > 0 => updateSubgraphTriples(updateSubgraphTriples(prev, batch), batch) = sg

\* C3 witness: a merge that did add nodes and links to the Subgraph passed in.
C3_Witness ==
  /\ ncalls > 0
  /\ Len(sg.nodes) > Len(prev.nodes)
  /\ Len(sg.links) > Len(prev.links)
  /\ Len(prev.nodes) > 0

-----------------------------------------------------------------------------
(* Claims about the activity signals and the failure paths of the engine *)

Added(act) == CopiesIn(act, adds)

Removed(act) == CopiesIn(act, removes)

\* the call has settled and every remote call it issued has been answered
Quiescent == op.kind # "idle" /\ op.status # "pending" /\ NonePending

IsSubQuery(k) == slots[k].kind \in {"S", "P", "O"}

Failed(k) == slots[k].st = "err"

\* the first remote call of the current stage that was rejected
FirstFailed ==
  op.arrival[CHOOSE n \in 1..Len(op.arrival) :
               /\ Failed(op.arrival[n])
               /\ \A m \in 1..(n - 1) : ~Failed(op.arrival[m])]

\* C4: for every resolve, fetch and expand call, succeeded or failed, once
\* every remote call it issued has settled each label has been added as many
\* times as it has been removed.
C4_ActivityPairing ==
  (Quiescent /\ op.kind \in {"queryLabel", "query", "expand"}) => adds = removes

\* C5: once a remote query of a build or expand has failed, the call never
\* resolves and never merges: it rejects with the error of the first failed
\* query (after the outer catch of query where that is still to run), and the
\* Subgraph passed in and the one the caller holds stay as they were.
C5_AllOrNothing ==
  (op.kind \in {"updateSubgraph", "expand"} /\ \E k \in 1..Len(slots) : Failed(k))
  => /\ ~op.merged
     /\ op.out = op.g
     /\ sg = op.g
     /\ op.status # "resolved"
     /\ op.status = "rejected" => op.err = slots[FirstFailed].err
     /\ op.status = "pending" => op.stage = "query"

\* C5 witness: a build into a populated Subgraph whose subject labels were
\* all resolved and whose predicate label lookup then failed.
C5_Witness ==
  /\ op.kind = "updateSubgraph"
  /\ op.stage = "labelP"
  /\ op.status = "rejected"
  /\ Len(op.g.nodes) > 0
  /\ \E k \in 1..Len(slots) : Failed(k)

\* C6: in updateSubgraphByRelationship the "Following ..." activity is added
\* before the directed query is issued and has been removed once that query
\* has settled, succeeded or failed, hence before any label lookup starts.
C6_FollowingActivityCleared ==
  op.kind = "expand" =>
    LET act == followingAct(op.dir, op.rel)
        inFlight == op.stage = "directed" /\ slots[1].st = "pending" IN
      /\ Added(act) = 1
      /\ inFlight => Removed(act) = 0
      /\ ~inFlight => Removed(act) = 1

SlotAsking(pattern) ==
  CHOOSE k \in 1..Len(slots) :
    <<slots[k].req.s, slots[k].req.p, slots[k].req.o>> = pattern

PatternsSent == [k \in 1..Len(sent) |-> <<sent[k].s, sent[k].p, sent[k].o>>]

\* C7: query(X) issues exactly the three pattern queries (X,-,-), (-,X,-),
\* (-,-,X), and when all three succeed its result is the answer to the first
\* followed by the answer to the second followed by the answer to the third,
\* whatever order the answers arrived in.
C7_FanOutCompleteness ==
  op.kind = "query" =>
    LET X == Iri(op.uri) IN
      /\ PatternsSent = << <<X, Undefined, Undefined>>, <<Undefined, X, Undefined>>,
                           <<Undefined, Undefined, X>> >>
      /\ op.status = "resolved" =>
           op.data = slots[SlotAsking(<<X, Undefined, Undefined>>)].res
                     \o slots[SlotAsking(<<Undefined, X, Undefined>>)].res
                     \o slots[SlotAsking(<<Undefined, Undefined, X>>)].res

\* C7 witness: query resolved after the object answer arrived first and the
\* subject answer last, the subject and predicate answers being different
\* non-empty lists.
C7_Witness ==
  /\ op.kind = "query"
  /\ op.status = "resolved"
  /\ op.arrival = <<3, 2, 1>>
  /\ slots[1].res # <<>> /\ slots[2].res # <<>> /\ slots[3].res # <<>>
  /\ slots[1].res # slots[2].res

\* C8: in query the outer activity "Query: " + uri is added with the three
\* sub-queries and is removed only after all three have settled, when all
\* succeed and when one fails.
C8_OuterActivitySpansSubQueries ==
  op.kind \in {"query", "updateSubgraph"} =>
    /\ Added(queryAct(op.uri)) = 1
    /\ Removed(queryAct(op.uri)) > 0 =>
         \A k \in 1..Len(slots) : IsSubQuery(k) => slots[k].st # "pending"

\* C9: once a sub-query of query has rejected, the combined promise does not
\* resolve; when it has rejected it carries the error of the first rejected
\* sub-query and the outer activity has been removed exactly once; every
\* sub-query, also one answered after the combined promise rejected, has
\* removed its own label exactly once as soon as it has settled.
C9_SubQueryFailure ==
  (op.kind \in {"query", "updateSubgraph"}
     /\ \E k \in 1..Len(slots) : IsSubQuery(k) /\ Failed(k))
  => /\ op.status # "resolved"
     /\ op.status = "rejected" => op.err = slots[FirstFailed].err
     /\ Removed(queryAct(op.uri)) = IF op.status = "rejected" THEN 1 ELSE 0
     /\ \A k \in 1..Len(slots) :
          /\ Added(slots[k].act) = 1
          /\ Removed(slots[k].act) = IF slots[k].st = "pending" THEN 0 ELSE 1

\* C9 witness: every sub-query has settled, the first answer was a rejection,
\* a later one a success and the last one another rejection; the combined
\* promise has rejected.
C9_Witness ==
  /\ op.kind = "query"
  /\ op.status = "rejected"
  /\ Len(op.arrival) = 3
  /\ Failed(op.arrival[1])
  /\ slots[op.arrival[2]].st = "ok"
  /\ Failed(op.arrival[3])

-----------------------------------------------------------------------------
(* Claims about queryLabel *)

IsLabelRequest(r) == r.p = Iri(RDFS_LABEL) /\ r.limit = LABEL_LIMIT

\* C11: for every identifier in the predefined table queryLabel resolves at
\* once to the mapped string, with no remote query and no add or remove; the
\* same holds for a predefined identifier looked up inside a label step.
C11_PredefinedShortCircuit ==
  /\ op.kind = "queryLabel" /\ op.uri \in DOMAIN predefined =>
        /\ op.status = "resolved"
        /\ op.label = predefined[op.uri]
        /\ sent = <<>>
        /\ adds = EmptyBag
        /\ removes = EmptyBag
  /\ \A k \in 1..Len(slots) :
        slots[k].kind = "label" /\ slots[k].uri \in DOMAIN predefined =>
          /\ slots[k].st = "now"
          /\ slots[k].label = predefined[slots[k].uri]
          /\ Added("Label " \o slots[k].uri) = 0
          /\ \A j \in 1..Len(sent) : sent[j].s # Iri(slots[k].uri)

\* queryLabel(RDFS_LABEL) has resolved to "label"
C11_Witness ==
  /\ op.kind = "queryLabel"
  /\ op.uri = RDFS_LABEL
  /\ op.status = "resolved"
  /\ op.label = "label"

\* C12: for a non-predefined identifier queryLabel issues exactly one
\* pattern query (s = identifier, p = RDFS_LABEL, o wildcard, limit 1, the
\* given collection) and resolves to the value of the first statement's
\* object, or to the identifier itself when the response is empty.
C12_LabelQueryAndFallback ==
  /\ op.kind = "queryLabel" /\ op.uri \notin DOMAIN predefined =>
        /\ sent = <<Request(Iri(op.uri), Iri(RDFS_LABEL), Undefined, 1,
                            op.collection)>>
        /\ op.status = "resolved" =>
              op.label = IF Len(slots[1].res) >= 1
                         THEN getTermValue(slots[1].res[1].o)
                         ELSE op.uri
  /\ \A k \in 1..Len(slots) :
        slots[k].kind = "label" /\ slots[k].st = "ok" =>
          /\ slots[k].req = Request(Iri(slots[k].uri), Iri(RDFS_LABEL),
                                    Undefined, 1, op.collection)
          /\ slots[k].label = IF Len(slots[k].res) >= 1
                              THEN getTermValue(slots[k].res[1].o)
                              ELSE slots[k].uri

\* queryLabel("B") got an empty response and resolved to "B"
C12_Witness ==
  /\ op.kind = "queryLabel"
  /\ op.uri = "B"
  /\ op.status = "resolved"
  /\ slots[1].res = <<>>
  /\ op.label = "B"
  /\ Len(sent) = 1

\* C13: when the remote query of queryLabel fails, "Label " + identifier is
\* removed exactly once and the promise rejects with the underlying error;
\* the caller never sees the rejection while the label is active, and no
\* fallback label is produced.
C13_LabelFailure ==
  op.kind = "queryLabel" /\ Len(slots) = 1 /\ slots[1].st = "err" =>
    /\ op.status = "rejected"
    /\ op.err = slots[1].err
    /\ op.label = ""
    /\ Added("Label " \o op.uri) = 1
    /\ Removed("Label " \o op.uri) = 1
    /\ ("Label " \o op.uri) \notin activeLabels(activity)

\* queryLabel("A") rejected with the error of its remote query
C13_Witness ==
  /\ op.kind = "queryLabel"
  /\ op.uri = "A"
  /\ op.status = "rejected"
  /\ op.err \in ErrorsOf(1)

-----------------------------------------------------------------------------
(* Claims about skipped statements *)

hasIriObject(t) == isIri(t.o)

\* C14: a statement whose object is a literal or a blank node is skipped by
\* updateSubgraphTriples: the result of a merge equals the result of merging
\* the batch with those statements taken out, and a batch of only such
\* statements leaves the Subgraph as it was.
C14_NonIriObjectSkipped ==
  ncalls > 0 =>
    /\ sg = updateSubgraphTriples(prev, SelectSeq(batch, hasIriObject))
    /\ (\A k \in 1..Len(batch) : ~isIri(batch[k].o)) => sg = prev

\* a batch with a literal-object statement and an IRI-object statement was
\* merged: the Subgraph grew, and neither the subject nor the literal of the
\* skipped statement is a node
C14_Witness ==
  /\ ncalls > 0
  /\ Len(sg.nodes) > Len(prev.nodes)
  /\ \E j, k \in 1..Len(batch) :
       /\ isIri(batch[j].o)
       /\ batch[k].o.t = "l"
       /\ getTermValue(batch[k].s) \notin SeqIds(sg.nodes)
       /\ getTermValue(batch[k].o) \notin SeqIds(sg.nodes)

-----------------------------------------------------------------------------
(* Claims about the enrichment pipeline *)

withoutLabel(term) == [f \in DOMAIN term \ {"label"} |-> term[f]]

unlabelled(triples) ==
  [k \in 1..Len(triples) |->
     Triple(withoutLabel(triples[k].s), withoutLabel(triples[k].p),
            withoutLabel(triples[k].o))]

notLabelStatement(t) == t.p # Iri(RDFS_LABEL)

\* C15: labelS, labelP, labelO and filterInternals applied to a statement
\* list give exactly the statements whose predicate is not the RDFS label
\* IRI, in the order of the list, whatever order the lookups complete in.
C15_PipelineKeepsOrder ==
  op.merged =>
    /\ unlabelled(op.data) = SelectSeq(op.fetched, notLabelStatement)
    /\ batch = op.data

\* three statements were fetched, the middle one a label statement; the
\* last lookup of labelO completed before the first; two statements came out
C15_Witness ==
  /\ op.merged
  /\ Len(op.fetched) = 3
  /\ op.fetched[2].p = Iri(RDFS_LABEL)
  /\ Len(op.data) = 2
  /\ Len(op.arrival) >= 2
  /\ op.arrival[1] > op.arrival[2]

-----------------------------------------------------------------------------
(* Frame claims about the merge *)

IsPrefix(a, b) == Len(a) <= Len(b) /\ SubSeq(b, 1, Len(a)) = a

\* C16: merging is additive: the nodes and the links of
\* updateSubgraphTriples(g, b) begin with those of g, unchanged and in the
\* same order; new entries are only appended.
C16_MergeAdditive ==
  ncalls > 0 =>
    /\ IsPrefix(prev.nodes, sg.nodes)
    /\ IsPrefix(prev.links, sg.links)

\* a Subgraph that had nodes and links got a new node and a new link
C16_Witness ==
  /\ ncalls > 0
  /\ Len(prev.nodes) > 0
  /\ Len(prev.links) > 0
  /\ Len(sg.nodes) > Len(prev.nodes)
  /\ Len(sg.links) > Len(prev.links)

\* C17: updateSubgraphTriples does not mutate its input: after the call the
\* Subgraph object passed in holds the nodes and links it held before.
C17_InputNotMutated == ncalls > 0 => passed = prev

\* a call that returned a Subgraph with one more link and the same nodes as
\* the Subgraph passed in, which held nodes and links
C17_Witness ==
  /\ ncalls > 0
  /\ Len(prev.nodes) > 0
  /\ Len(prev.links) > 0
  /\ sg.nodes = prev.nodes
  /\ Len(sg.links) = Len(prev.links) + 1
  /\ passed = prev

-----------------------------------------------------------------------------
(* Claims about the requests of expand and query *)

\* C18: updateSubgraphByRelationship issues exactly one directed pattern
\* query, with limit 20 and the given collection: (s = node, p = relationship,
\* o wildcard) for "outgoing", (s wildcard, p = relationship, o = node) for
\* "incoming"; every other request of the call is a label lookup, and no
\* S/P/O fan-out is started.
C18_DirectedQuery ==
  op.kind = "expand" =>
    /\ Len(sent) >= 1
    /\ sent[1] = [s |-> IF op.dir = "outgoing" THEN Iri(op.uri) ELSE Undefined,
                  p |-> Iri(op.rel),
                  o |-> IF op.dir = "incoming" THEN Iri(op.uri) ELSE Undefined,
                  limit |-> 20,
                  collection |-> op.collection]
    /\ \A k \in 2..Len(sent) : IsLabelRequest(sent[k])
    /\ Added(queryAct(op.uri)) = 0
    /\ \A k \in 1..Len(slots) : ~IsSubQuery(k)

\* an incoming expand in the "library" collection has fetched its statements
\* and gone on to label lookups
C18_Witness ==
  /\ op.kind = "expand"
  /\ op.dir = "incoming"
  /\ op.collection = "library"
  /\ op.stage = "labelO"
  /\ Len(sent) > 1

\* C19: query issues its three sub-queries in the call itself, before any
\* response: while the fan-in is open exactly the S, P and O requests are
\* out, whichever have been answered; the concatenated result exists only
\* once all three have succeeded.
C19_ConcurrentFanOut ==
  op.kind \in {"query", "updateSubgraph"} =>
    /\ Len(sent) >= 3
    /\ SubSeq(sent, 1, 3) = reqsOf(queryFanOut(op.uri, op.limit, op.collection))
    /\ op.stage = "query" =>
          /\ Len(slots) = 3
          /\ Len(sent) = 3
          /\ op.fetched = <<>>
    /\ op.stage = "fetched" \/ (op.kind = "query" /\ op.stage = "done") =>
          /\ \A k \in 1..3 : slots[k].st = "ok"
          /\ op.fetched = slots[1].res \o slots[2].res \o slots[3].res

\* the O sub-query has been answered while S and P are still in flight
C19_Witness ==
  /\ op.kind = "query"
  /\ op.stage = "query"
  /\ slots[3].st = "ok"
  /\ slots[1].st = "pending"
  /\ slots[2].st = "pending"
  /\ Len(sent) = 3

-----------------------------------------------------------------------------
(* Claims about the order of the label steps *)

InLabelStep == op.stage \in {"labelS", "labelP", "labelO"}

PendingWith(act) ==
  Cardinality({k \in 1..Len(slots) : slots[k].st = "pending" /\ slots[k].act = act})

\* C20: the lookups of one label step are launched together, one per
\* statement, and the steps follow one another: while a step is running,
\* every lookup still unanswered belongs to it, so no labelP lookup was
\* started before all labelS lookups completed, nor a labelO lookup before
\* all labelP lookups completed.
C20_LabelStepsSequential ==
  InLabelStep =>
    /\ Len(slots) = Len(op.data)
    /\ \A k \in 1..Len(slots) :
         slots[k].uri = IF slots[k].kind = "literal" THEN ""
                        ELSE IF op.stage = "labelS" THEN getTermValue(op.data[k].s)
                        ELSE IF op.stage = "labelP" THEN getTermValue(op.data[k].p)
                        ELSE getTermValue(op.data[k].o)
    /\ \A act \in BagToSet(adds) : Added(act) - Removed(act) = PendingWith(act)

\* labelP is running with a lookup in flight after a labelS step of two
\* lookups
C20_Witness ==
  /\ op.stage = "labelP"
  /\ Len(op.data) >= 2
  /\ \E k \in 1..Len(slots) : slots[k].st = "pending"
  /\ Added("Label A") = 2
  /\ Removed("Label A") = 2

-----------------------------------------------------------------------------
(* Claims about link keys, labels and the example scenario *)

AknowsB == Triple(Iri("A"), Iri("knows"), Iri("B"))

BknowsA == Triple(Iri("B"), Iri("knows"), Iri("A"))

\* C21: every merged statement with an IRI object has a link whose id is
\* subject + "@@" + predicate + "@@" + object, with source the subject and
\* target the object, and every link appended comes from such a statement;
\* [A knows B] merged into the empty Subgraph gives nodes A, B and the link
\* A@@knows@@B, and [A knows B, B knows A] merged next gives 2 nodes and 2
\* links.
C21_LinkKeyAndScenario ==
  ncalls > 0 =>
    /\ \A k \in 1..Len(batch) :
         isIri(batch[k].o) =>
           \E j \in 1..Len(sg.links) :
             /\ sg.links[j].id = getTermValue(batch[k].s) \o "@@" \o
                                   getTermValue(batch[k].p) \o "@@" \o
                                   getTermValue(batch[k].o)
             /\ sg.links[j].source = getTermValue(batch[k].s)
             /\ sg.links[j].target = getTermValue(batch[k].o)
    /\ \A j \in (Len(prev.links) + 1)..Len(sg.links) :
         \E k \in 1..Len(batch) :
           /\ isIri(batch[k].o)
           /\ sg.links[j].id = getTermValue(batch[k].s) \o "@@" \o
                                 getTermValue(batch[k].p) \o "@@" \o
                                 getTermValue(batch[k].o)
    /\ prev = createSubgraph /\ unlabelled(batch) = <<AknowsB>> =>
         /\ NodeIdList(sg) = <<"A", "B">>
         /\ LinkIdList(sg) = <<"A@@knows@@B">>
    /\ (/\ NodeIdList(prev) = <<"A", "B">>
        /\ LinkIdList(prev) = <<"A@@knows@@B">>
        /\ unlabelled(batch) = <<AknowsB, BknowsA>>) =>
         /\ NodeIdList(sg) = <<"A", "B">>
         /\ LinkIdList(sg) = <<"A@@knows@@B", "B@@knows@@A">>

\* the second merge of the scenario has been done
C21_Witness ==
  /\ ncalls = 2
  /\ LinkIdList(prev) = <<"A@@knows@@B">>
  /\ unlabelled(batch) = <<AknowsB, BknowsA>>
  /\ Len(sg.nodes) = 2
  /\ Len(sg.links) = 2

-----------------------------------------------------------------------------
(* useGraphSubgraph (state/graph-query.ts): the cached subgraph, the update *)
(* mutation (node click) and the relationship-navigation mutation.  The     *)
(* promise of a mutation is the promise of updateSubgraph or                *)
(* updateSubgraphByRelationship for the currentGraph it was given: it       *)
(* resolves to updateSubgraphTriples(currentGraph, d), d the enriched and   *)
(* filtered statements, or rejects.                                         *)

MaxMutations == 2

\* enriched statement lists a fetch may end with
CacheBatches ==
  { <<>>,
    <<Triple(withLabel(Iri("A"), "Alice"), withLabel(Iri("knows"), "knows"),
             withLabel(Iri("B"), "Bob"))>>,
    <<Triple(withLabel(Iri("B"), "Bob"), withLabel(Iri("knows"), "knows"),
             withLabel(Iri("A"), "Alice"))>> }

\* values a fetch may reject with, and err.toString() of each
CacheErrors == {"request failed"}

errToString(err) == "Error: " \o err

\* queryFn resolved: updateSubgraph(api, entityUri, createSubgraph(), ...)
QuerySuccess(d) ==
  /\ cache = Undefined
  /\ cache' = updateSubgraphTriples(createSubgraph, d)
  /\ UNCHANGED <<engineVars, mutations, settled, notified, storeVars, chatVars>>

\* mutate({..., currentGraph}): the caller passes the graph it sees (view)
startMutation(kind) ==
  /\ cache # Undefined
  /\ mutations' = Append(mutations,
                         [kind |-> kind, currentGraph |-> cache,
                          startedAt |-> Len(settled), status |-> "pending",
                          batch |-> <<>>, data |-> Undefined])
  /\ UNCHANGED <<engineVars, cache, settled, notified, storeVars, chatVars>>

\* updateSubgraph: updateMutation.mutate
MutateUpdate == Len(mutations) < MaxMutations /\ startMutation("update")

\* navigateByRelationship: relationshipNavigationMutation.mutate
MutateNavigate == Len(mutations) < MaxMutations /\ startMutation("navigate")

\* mutant: a staleness guard, the result is written only when the cache
\* still holds the graph the mutation was started with
MutationSuccess_guarded(i, d) ==
  /\ mutations[i].status = "pending"
  /\ LET newGraph == updateSubgraphTriples(mutations[i].currentGraph, d) IN
       /\ mutations' = [mutations EXCEPT ![i].status = "success",
                                         ![i].batch = d, ![i].data = newGraph]
       /\ cache' = IF cache = mutations[i].currentGraph THEN newGraph ELSE cache
  /\ settled' = Append(settled, i)
  /\ UNCHANGED <<engineVars, notified, storeVars, chatVars>>

\* mutationFn resolved; onSuccess: queryClient.setQueryData(key, newGraph)
MutationSuccess(i, d) ==
  /\ mutations[i].status = "pending"
  /\ LET newGraph == updateSubgraphTriples(mutations[i].currentGraph, d) IN
       /\ mutations' = [mutations EXCEPT ![i].status = "success",
                                         ![i].batch = d, ![i].data = newGraph]
       /\ cache' = newGraph
  /\ settled' = Append(settled, i)
  /\ UNCHANGED <<engineVars, notified, storeVars, chatVars>>

\* mutationFn rejected; onError: notify.error(err.toString())
MutationError(i, err) ==
  /\ mutations[i].status = "pending"
  /\ mutations' = [mutations EXCEPT ![i].status = "error"]
  /\ settled' = Append(settled, i)
  /\ notified' = Append(notified, errToString(err))
  /\ UNCHANGED <<engineVars, cache, storeVars, chatVars>>

InitCache ==
  /\ sg = createSubgraph
  /\ prev = createSubgraph
  /\ passed = createSubgraph
  /\ batch = <<>>
  /\ EngineIdle
  /\ HooksIdle

NextCache ==
  \/ \E d \in CacheBatches : QuerySuccess(d)
  \/ MutateUpdate
  \/ MutateNavigate
  \/ \E i \in 1..Len(mutations) :
       \/ \E d \in CacheBatches : MutationSuccess(i, d)
       \/ \E err \in CacheErrors : MutationError(i, err)

SpecCache == InitCache /\ [][NextCache]_vars

-----------------------------------------------------------------------------
(* Claims about useGraphSubgraph *)

Succeeded == SelectSeq(settled, LAMBDA i : mutations[i].status = "success")

\* mutation i was still in flight when mutation j was started
Overlap(i, j) ==
  /\ i < j
  /\ \A k \in 1..mutations[j].startedAt : settled[k] # i

\* C22: there is no staleness guard: every mutation that resolves has the
\* merge into the currentGraph it was started with as its result, and the
\* cached subgraph is the result of the mutation that resolved last,
\* whatever was written in between.
C22_NoStalenessGuard ==
  /\ \A i \in 1..Len(mutations) :
       mutations[i].status = "success" =>
         mutations[i].data =
           updateSubgraphTriples(mutations[i].currentGraph, mutations[i].batch)
  /\ Succeeded # <<>> => cache = mutations[Succeeded[Len(Succeeded)]].data

\* two overlapping mutations resolved, the first-started one last: the
\* cached graph is its stale merge and lacks a link the other one had added
C22_Witness ==
  /\ Len(mutations) = 2
  /\ Overlap(1, 2)
  /\ settled = <<2, 1>>
  /\ mutations[1].status = "success"
  /\ mutations[2].status = "success"
  /\ cache = mutations[1].data
  /\ \E l \in SeqIds(mutations[2].data.links) : l \notin SeqIds(cache.links)

-----------------------------------------------------------------------------
(* Claims about empty results and the composition of the build *)

EmptyFetch ==
  /\ op.kind \in {"updateSubgraph", "expand"}
  /\ op.stage \in {"fetched", "labelS", "labelP", "labelO", "done"}
  /\ op.fetched = <<>>

\* C23: when the three sub-queries of a build, or the directed query of an
\* expand, return empty lists, the operation does not reject and issues no
\* label lookup; once it has resolved, its result has the nodes and links of
\* the Subgraph passed in and every activity it added has been removed.
C23_EmptyResultNotError ==
  EmptyFetch =>
    /\ op.status # "rejected"
    /\ Len(sent) = IF op.kind = "updateSubgraph" THEN 3 ELSE 1
    /\ \A k \in 1..Len(sent) : ~IsLabelRequest(sent[k])
    /\ op.stage = "done" =>
          /\ op.status = "resolved"
          /\ op.merged
          /\ op.out = op.g
          /\ adds = removes

\* an expand of a populated Subgraph whose directed query found nothing has
\* resolved
C23_Witness ==
  /\ op.kind = "expand"
  /\ op.fetched = <<>>
  /\ op.stage = "done"
  /\ op.status = "resolved"
  /\ Len(op.g.nodes) > 0
  /\ Len(sent) = 1

-----------------------------------------------------------------------------
(* The stores and the notification hook: useProgressStateStore (modelled    *)
(* from its tests and the activity registry above), useSessionStore         *)
(* (state/session.ts), useNotification (hooks/useNotification.ts) inside or *)
(* outside a NotificationProvider.                                          *)

MaxStoreCalls == 3

ActivityLabels == {"Activity 1", "Activity 2", "Activity 3"}

ErrorTexts == {"Test error"}

FlowIds == {"test-flow-id"}

Flows == {"test-flow"}

\* handler objects an application may give to NotificationProvider
Handlers == {"mockHandler", "toasterHandler"}

Call(fn, arg) == [fn |-> fn, arg |-> arg]

CanCallStore == Len(log) < MaxStoreCalls

\* useProgressStateStore.addActivity(act)
AddActivity(act) ==
  /\ CanCallStore
  /\ activity' = addActivity(activity, act)
  /\ log' = Append(log, Call("addActivity", act))
  /\ UNCHANGED <<sg, prev, passed, batch, op, slots, adds, removes, sent, ncalls>>
  /\ UNCHANGED <<cacheVars, chatVars, error, session, hook>>

\* useProgressStateStore.removeActivity(act)
RemoveActivity(act) ==
  /\ CanCallStore
  /\ activity' = removeActivity(activity, act)
  /\ log' = Append(log, Call("removeActivity", act))
  /\ UNCHANGED <<sg, prev, passed, batch, op, slots, adds, removes, sent, ncalls>>
  /\ UNCHANGED <<cacheVars, chatVars, error, session, hook>>

\* mutant: setError replaces the state, the activity is lost
SetError_replace(e) ==
  /\ CanCallStore
  /\ error' = e
  /\ activity' = EmptyBag
  /\ log' = Append(log, Call("setError", e))
  /\ UNCHANGED <<sg, prev, passed, batch, op, slots, adds, removes, sent, ncalls>>
  /\ UNCHANGED <<cacheVars, chatVars, session, hook>>

\* useProgressStateStore.setError(e)
SetError(e) ==
  /\ CanCallStore
  /\ error' = e
  /\ log' = Append(log, Call("setError", e))
  /\ UNCHANGED <<engineVars, cacheVars, chatVars, session, hook>>

\* mutant: set replaces the state with the initial one but for flowId
SetFlowId_replace(v) ==
  /\ CanCallStore
  /\ session' = [sessionInitial EXCEPT !.flowId = v]
  /\ log' = Append(log, Call("setFlowId", v))
  /\ UNCHANGED <<engineVars, cacheVars, chatVars, error, hook>>

\* setFlowId: (v) => set(() => ({ flowId: v }))
SetFlowId(v) ==
  /\ CanCallStore
  /\ session' = [session EXCEPT !.flowId = v]
  /\ log' = Append(log, Call("setFlowId", v))
  /\ UNCHANGED <<engineVars, cacheVars, chatVars, error, hook>>

\* setFlow: (v) => set(() => ({ flow: v }))
SetFlow(v) ==
  /\ CanCallStore
  /\ session' = [session EXCEPT !.flow = v]
  /\ log' = Append(log, Call("setFlow", v))
  /\ UNCHANGED <<engineVars, cacheVars, chatVars, error, hook>>

\* <NotificationContext.Provider value={handler}>; with no provider above
\* the hook the context holds its default, null
contextValue(wrapper) == wrapper

\* mutant: the null check is dropped, the context value is returned as is
useNotification_noCheck(handler) == [outcome |-> "returned", value |-> handler]

\* useNotification, given what useContext(NotificationContext) returned
useNotification(handler) ==
  IF handler = null
  THEN [outcome |-> "thrown",
        value |-> "useNotification must be used within a NotificationProvider"]
  ELSE [outcome |-> "returned", value |-> handler]

\* renderHook(() => useNotification(), { wrapper })
RenderHook(wrapper) ==
  /\ CanCallStore
  /\ hook' = useNotification(contextValue(wrapper))
  /\ log' = Append(log, Call("renderHook", wrapper))
  /\ UNCHANGED <<engineVars, cacheVars, chatVars, error, session>>

InitStores ==
  /\ sg = createSubgraph
  /\ prev = createSubgraph
  /\ passed = createSubgraph
  /\ batch = <<>>
  /\ EngineIdle
  /\ HooksIdle

NextStores ==
  \/ \E act \in ActivityLabels : AddActivity(act)
  \/ \E act \in ActivityLabels : RemoveActivity(act)
  \/ \E e \in ErrorTexts : SetError(e)
  \/ \E v \in FlowIds : SetFlowId(v)
  \/ \E v \in Flows : SetFlow(v)
  \/ \E w \in Handlers \cup {null} : RenderHook(w)

SpecStores == InitStores /\ [][NextStores]_vars

-----------------------------------------------------------------------------
(* Claims about the stores and the notification hook *)

Last(q) == q[Len(q)]

stepOf(fn) == log' # log /\ Last(log').fn = fn

\* the state part of C24
C24_ActivityState ==
  /\ log = <<>> => activeLabels(activity) = {} /\ error = ""
  /\ log # <<>> /\ Last(log).fn = "addActivity" =>
        Last(log).arg \in activeLabels(activity)
  /\ \A n \in 2..Len(log) :
        (/\ n = Len(log)
         /\ log[n - 1].fn = "addActivity"
         /\ log[n] = Call("removeActivity", log[n - 1].arg)
         /\ \A k \in 1..(n - 2) : log[k] # log[n - 1]) =>
          log[n].arg \notin activeLabels(activity)
  /\ (/\ \A k \in 1..Len(log) : log[k].fn = "addActivity"
      /\ \A j, k \in 1..Len(log) : j # k => log[j].arg # log[k].arg) =>
        Cardinality(activeLabels(activity)) = Len(log)
  /\ log # <<>> /\ Last(log).fn = "setError" => error = Last(log).arg

C25_SessionStep ==
  /\ stepOf("setFlowId") =>
       /\ session'.flowId = Last(log').arg
       /\ session'.flow = session.flow
       /\ session'.flowDescription = session.flowDescription
  /\ stepOf("setFlow") =>
       /\ session'.flow = Last(log').arg
       /\ session'.flowId = session.flowId
       /\ session'.flowDescription = session.flowDescription

\* C25: useSessionStore starts with flowId "default", flow null and
\* flowDescription ""; setFlowId(v) sets flowId to v and setFlow(v) sets
\* flow to v, each leaving the other two fields as they were.
C25_SessionStore ==
  /\ [](log = <<>> => session = [flowId |-> "default", flow |-> null,
                                  flowDescription |-> ""])
  /\ [][C25_SessionStep]_vars

\* setFlow then setFlowId: both fields hold what was set
C25_Witness ==
  /\ log = <<Call("setFlow", "test-flow"), Call("setFlowId", "test-flow-id")>>
  /\ session = [flowId |-> "test-flow-id", flow |-> "test-flow",
                flowDescription |-> ""]

\* C27: useNotification returns exactly the handler given to the enclosing
\* NotificationProvider; with no provider above it (context value null) it
\* throws "useNotification must be used within a NotificationProvider" and
\* returns no handler.
C27_UseNotification ==
  log # <<>> /\ Last(log).fn = "renderHook" =>
    IF Last(log).arg \in Handlers
    THEN hook = [outcome |-> "returned", value |-> Last(log).arg]
    ELSE hook = [outcome |-> "thrown",
                 value |-> "useNotification must be used within a NotificationProvider"]

\* the hook was rendered inside a provider and then with no provider: the
\* second render threw
C27_Witness ==
  /\ log = <<Call("renderHook", "mockHandler"), Call("renderHook", null)>>
  /\ hook.outcome = "thrown"

-----------------------------------------------------------------------------
(* The build as one function of the remote responses *)

\* the label the store answers for uri: LabelResponses(uri) holds one answer
remoteLabel(uri) == labelOfResponse(CHOOSE r \in LabelResponses(uri) : TRUE, uri)

\* what queryLabel(uri) resolves to
resolvedLabel(uri) ==
  IF uri \in DOMAIN predefined THEN predefined[uri] ELSE remoteLabel(uri)

\* what labelO attaches to an object
objectLabel(o) == IF isIri(o) THEN resolvedLabel(o.i) ELSE getTermValue(o)

\* labelO(labelP(labelS(triples))) once every lookup has been answered
enriched(triples) ==
  [k \in 1..Len(triples) |->
     Triple(withLabel(triples[k].s, resolvedLabel(getTermValue(triples[k].s))),
            withLabel(triples[k].p, resolvedLabel(getTermValue(triples[k].p))),
            withLabel(triples[k].o, objectLabel(triples[k].o)))]

\* C28: a resolved updateSubgraph(uri, sg) has as its result
\* updateSubgraphTriples(sg, filterInternals(labelO(labelP(labelS(d))))) for
\* the list d that query(uri) returned and the labels the store answered,
\* for an empty sg and for a populated one, whose nodes and links the
\* result begins with.
C28_UpdateSubgraphComposition ==
  (op.kind = "updateSubgraph" /\ op.status = "resolved") =>
    /\ op.out = updateSubgraphTriples(op.g, filterInternals(enriched(op.fetched)))
    /\ IsPrefix(op.g.nodes, op.out.nodes)
    /\ IsPrefix(op.g.links, op.out.links)

\* node A of the Subgraph built for C was clicked and [A knows B] was
\* fetched: the result keeps C, A and their link and adds B and A's link
C28_Witness ==
  /\ op.kind = "updateSubgraph" /\ op.status = "resolved"
  /\ op.g = ClickedSubgraph
  /\ Len(op.fetched) = 2
  /\ NodeIdList(op.out) = <<"C", "A", "B">>
  /\ LinkIdList(op.out) = <<"C@@knows@@A", "A@@knows@@B">>

InLabelO == op.stage = "labelO" /\ op.status = "pending"

\* the label lookup of uri is among the requests and activities of the call
LookedUp(uri) ==
  \/ ("Label " \o uri) \in BagToSet(adds)
  \/ \E i \in 1..Len(sent) : sent[i].s = Iri(uri) /\ sent[i].p = Iri(RDFS_LABEL)

\* C29: in labelO a statement with an IRI object has the lookup queryLabel
\* makes for that IRI and, once answered, its label; a statement with a
\* literal object has the literal's value as label at once, and no request
\* and no activity is issued for it.
C29_LabelOByObjectKind ==
  InLabelO =>
    /\ Len(slots) = Len(op.data)
    /\ \A k \in 1..Len(slots) :
         IF isIri(op.data[k].o)
         THEN /\ slots[k].kind = "label"
              /\ slots[k].uri = op.data[k].o.i
              /\ slots[k].st \in {"ok", "now"} =>
                   slots[k].label = resolvedLabel(op.data[k].o.i)
         ELSE /\ slots[k].st = "now"
              /\ slots[k].label = getTermValue(op.data[k].o)
              /\ slots[k].act = ""
              /\ slots[k].req = Undefined
              /\ ~LookedUp(getTermValue(op.data[k].o))
    /\ AllOk =>
         \A k \in 1..Len(slots) :
           labelledO(op.data, slots)[k].o =
             withLabel(op.data[k].o, objectLabel(op.data[k].o))

\* labelO runs on [A knows B] and [A label "Alice"]: the lookup of B was
\* answered with no label statement, the literal has its own value
C29_Witness ==
  /\ InLabelO
  /\ Len(op.data) = 2
  /\ op.data[1].o = Iri("B") /\ slots[1].st = "ok" /\ slots[1].label = "B"
  /\ op.data[2].o = Literal("Alice") /\ slots[2].label = "Alice"
  /\ LookedUp("B")

-----------------------------------------------------------------------------
(* Labels of the appended nodes and links *)

\* the label attached to a term, "unknown" when none (or an empty one) is
attachedLabel(term) ==
  IF "label" \in DOMAIN term /\ term.label # "" THEN term.label ELSE "unknown"

Min(S) == CHOOSE k \in S : \A j \in S : k <= j

\* the merged statements of the last batch that name the node id
Introducing(id) ==
  {k \in 1..Len(batch) :
     /\ isIri(batch[k].o)
     /\ id \in {getTermValue(batch[k].s), getTermValue(batch[k].o)}}

\* the term of the first such statement that has the id: its subject, or
\* else its object
introducingTerm(id) ==
  LET t == batch[Min(Introducing(id))] IN
    IF getTermValue(t.s) = id THEN t.s ELSE t.o

\* the merged statements of the last batch with the link key id
IntroducingLink(id) ==
  {k \in 1..Len(batch) : isIri(batch[k].o) /\ linkIdOf(batch[k]) = id}

-----------------------------------------------------------------------------
(* useChatSession (state/chat-session.ts): the chat mutation, its three     *)
(* handlers and their streaming callbacks.  The inference services          *)
(* (useInference) and the socket are the environment: they call the         *)
(* callbacks, then resolve or reject.  The conversation store (addMessage,  *)
(* updateLastMessage, setInput) is modelled from the way it is called.      *)
(* `log` is the trace of the calls made on the stores and services.         *)

MaxSubmits == 1

MaxCallbacks == 2

ChatInputs == {"hi"}

ChatModes == {"graph-rag", "basic-llm", "agent", "voice"}

Chunks == {"ok"}

Responses == {"done"}

\* new Error(message), and a thrown value that is no Error
Err(message) == [t |-> "Error", message |-> message]

Thrown(v) == [t |-> "string", v |-> v]

ChatErrors == {Err("timeout"), Thrown("socket closed")}

\* entities a Graph RAG result may carry
FoundEntities == {<<>>, <<Iri("A")>>, <<Iri("A"), Iri("B")>>}

chatCollection == "library"

\* err.toString()
toString(err) == IF err.t = "Error" THEN "Error: " \o err.message ELSE err.v

\* error instanceof Error ? error.message : error?.toString() || "Unknown error"
errorMessage(err) ==
  IF err.t = "Error" THEN err.message
  ELSE IF toString(err) # "" THEN toString(err)
  ELSE "Unknown error"

Message(role, text, type) == [role |-> role, text |-> text, type |-> type]

\* useConversation.addMessage(role, text, type)
addMessage(msgs, role, text, type) == Append(msgs, Message(role, text, type))

\* useConversation.updateLastMessage(text)
updateLastMessage(msgs, text) ==
  IF msgs = <<>> THEN msgs ELSE [msgs EXCEPT ![Len(msgs)].text = text]

ragActivity(text) == "Graph RAG: " \o text

embActivity(text) == "Find entities: " \o text

labelActivity(entity) == "Label " \o getTermValue(entity)

handlerActivity(mode, text) ==
  IF mode = "graph-rag" THEN ragActivity(text)
  ELSE IF mode = "basic-llm" THEN "Text completion: " \o text
  ELSE "Agent: " \o text

serviceOf(mode) ==
  IF mode = "graph-rag" THEN "graphRag"
  ELSE IF mode = "basic-llm" THEN "textCompletion"
  ELSE "agent"

\* the label lookup of one discovered entity
LabelLookup(entity) ==
  [entity |-> entity, st |-> "pending", resp |-> <<>>]

labelActs(found) == [k \in 1..Len(found) |-> labelActivity(found[k])]

labelReqs(found) ==
  [k \in 1..Len(found) |->
     Request(found[k], Iri(RDFS_LABEL), Undefined, 1, chatCollection)]

NoLabelPending == \A k \in 1..Len(chat.labels) : chat.labels[k].st # "pending"

AllLabelsOk == \A k \in 1..Len(chat.labels) : chat.labels[k].st = "ok"

\* labelResponses.filter(resp => resp && resp.length > 0).map(...)
RECURSIVE entityList(_)
entityList(labels) ==
  IF labels = <<>> THEN <<>>
  ELSE IF Len(Head(labels).resp) > 0
  THEN <<[label |-> getTermValue(Head(labels).resp[1].o),
          uri |-> getTermValue(Head(labels).resp[1].s)]>>
       \o entityList(Tail(labels))
  ELSE entityList(Tail(labels))

\* a continuation of the mutation is due: it runs before the next event
Settling ==
  \/ chat.phase \in {"returned", "thrown", "rejected"}
  \/ chat.phase = "labels" /\ (AllLabelsOk \/ chat.allErr # Undefined)

engineFrame == UNCHANGED <<sg, prev, passed, batch, op, slots, ncalls>>

sameActivity == UNCHANGED <<adds, removes, activity, sent>>

sameStores == UNCHANGED <<error, session, hook>>

\* the user types into the input box, between two tasks of the hook
TypeInput(v) ==
  /\ ~Settling
  /\ input # v
  /\ input' = v
  /\ UNCHANGED <<engineVars, cacheVars, storeVars, messages, entities, chat>>

\* submitMessage({ input }): mutationFn up to its first await, that is
\* addMessage("human", input), the switch on chatMode and the called
\* handler up to its inference call; an unknown mode throws at once.
\* One submission runs at a time.
Submit(text, mode) ==
  /\ chat.phase \in {"idle", "success", "failed"}
  /\ chat.submits < MaxSubmits
  /\ NoLabelPending
  /\ messages' = addMessage(messages, "human", text, "")
  /\ IF mode \in {"graph-rag", "basic-llm", "agent"}
     THEN /\ chat' = [ChatIdle EXCEPT
                        !.phase = "inference", !.chatMode = mode, !.input = text,
                        !.submits = chat.submits + 1]
          /\ log' = log \o <<Call("addMessage", "human"), Call(serviceOf(mode), text)>>
          /\ Effects(<<handlerActivity(mode, text)>>, <<>>, <<>>)
     ELSE /\ chat' = [ChatIdle EXCEPT
                        !.phase = "thrown", !.chatMode = mode, !.input = text,
                        !.submits = chat.submits + 1,
                        !.err = Err("Unknown chat mode")]
          /\ log' = Append(log, Call("addMessage", "human"))
          /\ sameActivity
  /\ UNCHANGED <<input, entities, cacheVars>>
  /\ sameStores
  /\ engineFrame

\* the body of a streaming callback: accumulate, then add the message on
\* the first call and update the last message on later ones; onThink and
\* onObserve start over once a part is complete
streamed(kind, text, type, reset) ==
  /\ chat.phase = "inference"
  /\ chat.ncallbacks < MaxCallbacks
  /\ LET acc == chat.streams[kind].accumulated \o text IN
       /\ IF chat.streams[kind].messageAdded
          THEN /\ messages' = updateLastMessage(messages, acc)
               /\ log' = Append(log, Call("updateLastMessage", acc))
          ELSE /\ messages' = addMessage(messages, "ai", acc, type)
               /\ log' = Append(log, Call("addMessage", "ai"))
       /\ chat' = [chat EXCEPT
                     !.ncallbacks = @ + 1,
                     !.streams[kind] =
                       IF reset THEN NoStream
                       ELSE [accumulated |-> acc, messageAdded |-> TRUE]]
  /\ sameActivity
  /\ UNCHANGED <<input, entities, cacheVars>>
  /\ sameStores
  /\ engineFrame

\* handleGraphRag, handleBasicLlm: callbacks.onChunk
OnChunk(chunk) ==
  /\ chat.chatMode \in {"graph-rag", "basic-llm"}
  /\ streamed("chunk", chunk, "", FALSE)

\* handleAgent: callbacks.onThink
OnThink(thought, complete) ==
  /\ chat.chatMode = "agent"
  /\ streamed("thinking", thought, "thinking", complete)

\* handleAgent: callbacks.onObserve
OnObserve(observation, complete) ==
  /\ chat.chatMode = "agent"
  /\ streamed("observation", observation, "observation", complete)

\* handleAgent: callbacks.onAnswer
OnAnswer(answer) ==
  /\ chat.chatMode = "agent"
  /\ streamed("answer", answer, "answer", FALSE)

\* handleBasicLlm, handleAgent: the inference call resolved
HandlerThen(response) ==
  /\ chat.phase = "inference"
  /\ chat.chatMode \in {"basic-llm", "agent"}
  /\ Effects(<<>>, <<handlerActivity(chat.chatMode, chat.input)>>, <<>>)
  /\ entities' = <<>>
  /\ chat' = [chat EXCEPT !.phase = "returned", !.response = response]
  /\ UNCHANGED <<messages, input, cacheVars, storeVars>>
  /\ engineFrame

\* handleBasicLlm, handleAgent: the inference call rejected
HandlerCatch(err) ==
  /\ chat.phase = "inference"
  /\ chat.chatMode \in {"basic-llm", "agent"}
  /\ Effects(<<>>, <<handlerActivity(chat.chatMode, chat.input)>>, <<>>)
  /\ chat' = [chat EXCEPT !.phase = "thrown", !.err = err]
  /\ UNCHANGED <<messages, input, entities, cacheVars, storeVars>>
  /\ engineFrame

\* handleGraphRag: inference.graphRag resolved; the label lookups start
GraphRagThen(response, found) ==
  /\ chat.phase = "inference"
  /\ chat.chatMode = "graph-rag"
  /\ Effects(<<embActivity(chat.input)>> \o labelActs(found),
             <<ragActivity(chat.input)>>, labelReqs(found))
  /\ chat' = [chat EXCEPT
                !.phase = "labels", !.response = response,
                !.labels = [k \in 1..Len(found) |-> LabelLookup(found[k])]]
  /\ UNCHANGED <<messages, input, entities, cacheVars, storeVars>>
  /\ engineFrame

\* handleGraphRag: a label lookup resolved
LabelThen ==
  /\ ~Settling
  /\ \E k \in 1..Len(chat.labels) :
       \E resp \in LabelResponses(getTermValue(chat.labels[k].entity)) :
         /\ chat.labels[k].st = "pending"
         /\ Effects(<<>>, <<labelActivity(chat.labels[k].entity)>>, <<>>)
         /\ chat' = [chat EXCEPT !.labels[k].st = "ok",
                                 !.labels[k].resp = resp]
  /\ UNCHANGED <<messages, input, entities, cacheVars, storeVars>>
  /\ engineFrame

\* handleGraphRag: a label lookup rejected; the first rejection is the one
\* Promise.all rejects with
LabelCatch(err) ==
  /\ ~Settling
  /\ \E k \in 1..Len(chat.labels) :
       /\ chat.labels[k].st = "pending"
       /\ Effects(<<>>, <<labelActivity(chat.labels[k].entity)>>, <<>>)
       /\ chat' = [chat EXCEPT
                     !.labels[k].st = "err",
                     !.allErr = IF chat.allErr = Undefined THEN err ELSE @]
  /\ UNCHANGED <<messages, input, entities, cacheVars, storeVars>>
  /\ engineFrame

\* handleGraphRag: Promise.all(labelPromises) resolved
GraphRagLabelled ==
  /\ chat.phase = "labels"
  /\ AllLabelsOk
  /\ entities' = entityList(chat.labels)
  /\ Effects(<<>>, <<embActivity(chat.input)>>, <<>>)
  /\ chat' = [chat EXCEPT !.phase = "returned"]
  /\ UNCHANGED <<messages, input, cacheVars, storeVars>>
  /\ engineFrame

\* handleGraphRag: the outer catch, for a rejected inference call
GraphRagCatch(err) ==
  /\ chat.phase = "inference"
  /\ chat.chatMode = "graph-rag"
  /\ Effects(<<>>, <<ragActivity(chat.input), embActivity(chat.input)>>, <<>>)
  /\ chat' = [chat EXCEPT !.phase = "thrown", !.err = err]
  /\ UNCHANGED <<messages, input, entities, cacheVars, storeVars>>
  /\ engineFrame

\* handleGraphRag: the outer catch, for a rejected Promise.all
GraphRagLabelCatch ==
  /\ chat.phase = "labels"
  /\ chat.allErr # Undefined
  /\ Effects(<<>>, <<ragActivity(chat.input), embActivity(chat.input)>>, <<>>)
  /\ chat' = [chat EXCEPT !.phase = "thrown", !.err = chat.allErr]
  /\ UNCHANGED <<messages, input, entities, cacheVars, storeVars>>
  /\ engineFrame

\* mutationFn after the handler returned: setInput(""); return response
MutationReturn ==
  /\ chat.phase = "returned"
  /\ input' = ""
  /\ log' = Append(log, Call("setInput", ""))
  /\ chat' = [chat EXCEPT !.phase = "success"]
  /\ sameActivity
  /\ UNCHANGED <<messages, entities, cacheVars>>
  /\ sameStores
  /\ engineFrame

\* mutant: the input is kept when the handler failed
MutationCatch_noClear ==
  /\ chat.phase = "thrown"
  /\ messages' = addMessage(messages, "ai", errorMessage(chat.err), "")
  /\ log' = Append(log, Call("addMessage", "ai"))
  /\ chat' = [chat EXCEPT !.phase = "rejected"]
  /\ sameActivity
  /\ UNCHANGED <<input, entities, cacheVars>>
  /\ sameStores
  /\ engineFrame

\* mutationFn, the catch: addMessage("ai", errorMessage); setInput("");
\* throw error
MutationCatch ==
  /\ chat.phase = "thrown"
  /\ messages' = addMessage(messages, "ai", errorMessage(chat.err), "")
  /\ input' = ""
  /\ log' = log \o <<Call("addMessage", "ai"), Call("setInput", "")>>
  /\ chat' = [chat EXCEPT !.phase = "rejected"]
  /\ sameActivity
  /\ UNCHANGED <<entities, cacheVars>>
  /\ sameStores
  /\ engineFrame

\* chatMutation.onError: notify.error(err.toString())
OnError ==
  /\ chat.phase = "rejected"
  /\ notified' = Append(notified, toString(chat.err))
  /\ log' = Append(log, Call("notify.error", toString(chat.err)))
  /\ chat' = [chat EXCEPT !.phase = "failed"]
  /\ sameActivity
  /\ UNCHANGED <<messages, input, entities, cache, mutations, settled>>
  /\ sameStores
  /\ engineFrame

InitChat ==
  /\ sg = createSubgraph
  /\ prev = createSubgraph
  /\ passed = createSubgraph
  /\ batch = <<>>
  /\ EngineIdle
  /\ HooksIdle

NextChat ==
  \/ \E v \in ChatInputs \cup {""} : TypeInput(v)
  \/ \E text \in ChatInputs, mode \in ChatModes : Submit(text, mode)
  \/ \E c \in Chunks : OnChunk(c)
  \/ \E c \in Chunks, complete \in BOOLEAN : OnThink(c, complete)
  \/ \E c \in Chunks, complete \in BOOLEAN : OnObserve(c, complete)
  \/ \E c \in Chunks : OnAnswer(c)
  \/ \E r \in Responses : HandlerThen(r)
  \/ \E e \in ChatErrors : HandlerCatch(e)
  \/ \E r \in Responses, found \in FoundEntities : GraphRagThen(r, found)
  \/ LabelThen
  \/ \E e \in ChatErrors : LabelCatch(e)
  \/ GraphRagLabelled
  \/ \E e \in ChatErrors : GraphRagCatch(e)
  \/ GraphRagLabelCatch
  \/ MutationReturn
  \/ MutationCatch
  \/ OnError

SpecChat == InitChat /\ [][NextChat]_vars

-----------------------------------------------------------------------------
(* Claims about useChatSession *)

InferenceServices == {"graphRag", "textCompletion", "agent"}

IsInferenceCall(i) == log[i].fn \in InferenceServices

\* the call log[j] adds the human message that the inference call log[i]
\* answers: no other inference call lies between the two
HumanMessageFor(j, i) ==
  /\ log[j] = Call("addMessage", "human")
  /\ \A m \in (j + 1)..(i - 1) : ~IsInferenceCall(m)

\* the text the failure message carries: the message of an Error, the
\* string form of any other thrown value
errorText(err) == IF err.t = "Error" THEN err.message ELSE err.v

LogEndsWith(calls) ==
  /\ Len(log) >= Len(calls)
  /\ SubSeq(log, Len(log) - Len(calls) + 1, Len(log)) = calls

C26_ChatState ==
  /\ \A i \in 1..Len(log) :
       IsInferenceCall(i) => \E j \in 1..(i - 1) : HumanMessageFor(j, i)
  /\ chat.phase \in {"inference", "labels", "returned", "thrown"} =>
       \E n \in 1..Len(messages) : messages[n] = Message("human", chat.input, "")
  /\ chat.phase = "success" => LogEndsWith(<<Call("setInput", "")>>)
  /\ chat.phase \in {"rejected", "failed"} =>
       Last(messages) = Message("ai", errorText(chat.err), "")
  /\ chat.phase = "rejected" =>
       /\ input = ""
       /\ LogEndsWith(<<Call("addMessage", "ai"), Call("setInput", "")>>)
  /\ chat.phase = "failed" =>
       /\ Last(notified) = toString(chat.err)
       /\ LogEndsWith(<<Call("addMessage", "ai"), Call("setInput", ""),
                        Call("notify.error", toString(chat.err))>>)

C26_ChatStep ==
  /\ (chat.phase # chat'.phase /\ chat'.phase \in {"success", "rejected"}) =>
       input' = ""
  /\ (chat.phase = "thrown" /\ chat'.phase = "rejected") => chat'.err = chat.err
  /\ (chat.phase = "rejected" /\ chat'.phase = "failed") =>
       /\ chat'.err = chat.err
       /\ notified' = Append(notified, toString(chat.err))
       /\ messages' = messages

\* C26: submitMessage adds the human message before any inference call is
\* started; the input is cleared when the submission succeeds and when it
\* fails; on a failure an AI message carrying the error text is added
\* before the same error is rethrown and then reported through
\* notify.error.
C26_SubmitMessage == []C26_ChatState /\ [][C26_ChatStep]_vars

\* a Graph RAG submission streamed its answer and found an entity, the
\* label lookup was rejected with a thrown value that is no Error: the
\* conversation holds the human message, the streamed answer and the error
\* text, the input is empty and the error was reported
C26_Witness ==
  /\ chat.phase = "failed"
  /\ chat.chatMode = "graph-rag"
  /\ chat.ncallbacks = 2
  /\ chat.allErr = Thrown("socket closed")
  /\ input = ""
  /\ messages = <<Message("human", "hi", ""), Message("ai", "okok", ""),
                  Message("ai", "socket closed", "")>>
  /\ notified = <<"socket closed">>

-----------------------------------------------------------------------------
(* Limit and collection of the sub-queries *)

InQueryFanIn == op.kind \in {"query", "updateSubgraph"} /\ op.stage = "query"

-----------------------------------------------------------------------------
(* Frame of the label steps *)

\* the slot a step labels, and the two slots it leaves alone
slotOf(t, step) == IF step = "s" THEN t.s ELSE IF step = "p" THEN t.p ELSE t.o

otherSlots(t, step) ==
  IF step = "s" THEN <<t.p, t.o>>
  ELSE IF step = "p" THEN <<t.s, t.o>>
  ELSE <<t.s, t.p>>

withoutLabelField(term) == [f \in DOMAIN term \ {"label"} |-> term[f]]

\* C32: a label step leaves the statements and terms it was given as they
\* were, and returns a list of the same length whose statements differ from
\* the given ones only in the labelled slot, which is the given term with a
\* label field added.
C32_LabelStepsPure ==
  op.step # "" =>
    /\ op.stepInAfter = op.stepIn
    /\ Len(op.stepOut) = Len(op.stepIn)
    /\ \A k \in 1..Len(op.stepIn) :
         /\ DOMAIN op.stepOut[k] = {"s", "p", "o"}
         /\ otherSlots(op.stepOut[k], op.step) = otherSlots(op.stepIn[k], op.step)
         /\ "label" \in DOMAIN slotOf(op.stepOut[k], op.step)
         /\ withoutLabelField(slotOf(op.stepOut[k], op.step)) =
              withoutLabelField(slotOf(op.stepIn[k], op.step))

\* labelS ran on two fetched statements: they still carry no label on the
\* subject, the returned statements do
C32_Witness ==
  /\ op.step = "s"
  /\ Len(op.stepIn) = 2
  /\ \A k \in 1..2 :
       /\ "label" \notin DOMAIN op.stepInAfter[k].s
       /\ op.stepOut[k].s.label # ""

-----------------------------------------------------------------------------
(* Term extraction on every variant of a term *)

MaxTermCalls == 2

\* a term whose tag is none of "i", "l", "b"
Other(x) == [t |-> "t", tr |-> x]

Terms ==
  { Iri("A"), Literal("B"), Blank("C"), Other("D") }

TermTriples ==
  { Triple(Other("D"), Iri("knows"), Iri("A")),
    Triple(Iri("A"), Other("D"), Iri("B")),
    Triple(Iri("A"), Iri("knows"), Other("D")),
    Triple(Blank("C"), Iri("knows"), Literal("B")) }

TermBatches == SeqsUpTo(TermTriples, MaxBatchLen)

\* getTermValue(term) and isIri(term), as a caller sees them
ApplyToTerm(term) ==
  /\ Len(log) < MaxTermCalls
  /\ log' = Append(log, [fn |-> "getTermValue", arg |-> term,
                         value |-> getTermValue(term), iri |-> isIri(term)])
  /\ UNCHANGED <<engineVars, cacheVars, chatVars, error, session, hook>>

\* updateSubgraphTriples on statements with terms of every variant
MergeTerms(b) == ncalls < MaxMergesAny /\ mergeCall(b)

NextTerms ==
  \/ \E term \in Terms : ApplyToTerm(term)
  \/ \E b \in TermBatches : MergeTerms(b)

SpecTerms == InitMerge /\ [][NextTerms]_vars

objectTaggedIri(t) == t.o.t = "i"

\* C33: getTermValue gives the IRI of an IRI term, the value of a literal,
\* the id of a blank node and "" for any other tag, and isIri holds exactly
\* for the tag "i"; with terms of an unknown variant the label steps still
\* build their lookups (for the value "") and the merge still returns,
\* skipping the statements whose object is no IRI.
C33_TermExtractionTotal ==
  /\ \A n \in 1..Len(log) :
       LET term == log[n].arg IN
         /\ term.t = "i" => log[n].value = term.i
         /\ term.t = "l" => log[n].value = term.v
         /\ term.t = "b" => log[n].value = term.d
         /\ term.t \notin {"i", "l", "b"} => log[n].value = ""
         /\ log[n].iri = (term.t = "i")
  /\ ncalls > 0 =>
       /\ sg = updateSubgraphTriples(prev, SelectSeq(batch, objectTaggedIri))
       /\ \A k \in 1..Len(batch) :
            /\ labelS(batch, "library")[k].uri =
                 (IF batch[k].s.t = "t" THEN "" ELSE getTermValue(batch[k].s))
            /\ labelP(batch, "library")[k].uri =
                 (IF batch[k].p.t = "t" THEN "" ELSE getTermValue(batch[k].p))
            /\ batch[k].o.t = "t" =>
                 /\ labelO(batch, "library")[k].st = "now"
                 /\ labelO(batch, "library")[k].label = ""

\* getTermValue was applied to a blank node and to a term of another
\* variant, and a statement whose subject is of that variant was merged:
\* its node has the id ""
C33_Witness ==
  /\ Len(log) = 2
  /\ log[1].arg = Blank("C") /\ log[1].value = "C"
  /\ log[2].arg = Other("D") /\ log[2].value = "" /\ ~log[2].iri
  /\ batch = <<Triple(Other("D"), Iri("knows"), Iri("A"))>>
  /\ NodeIdList(sg) = <<"", "A">>

-----------------------------------------------------------------------------
(* Referential integrity of the Subgraph *)

\* the predicates a merged statement can have
MergePredicates == {getTermValue(t.p) : t \in MergeTriples}

\* C34: after any sequence of merges from createSubgraph() every link has
\* its source and its target among the node ids of the same Subgraph, and
\* its id is its source, "@@", the predicate of a merged statement, "@@",
\* its target.
C34_ReferentialIntegrity ==
  \A j \in 1..Len(sg.links) :
    /\ sg.links[j].source \in SeqIds(sg.nodes)
    /\ sg.links[j].target \in SeqIds(sg.nodes)
    /\ \E p \in MergePredicates :
         sg.links[j].id = sg.links[j].source \o "@@" \o p \o "@@" \o sg.links[j].target

\* two merges gave the links A -> B, B -> A and A -> A over the nodes A, B
C34_Witness ==
  /\ ncalls = 2
  /\ SeqIds(sg.nodes) = {"A", "B"}
  /\ SeqIds(sg.links) = {"A@@knows@@B", "B@@knows@@A", "A@@knows@@A"}

-----------------------------------------------------------------------------
(* useGraphSubgraph (state/graph-query.ts) on top of the engine: the        *)
(* arguments each of its three operations hands to the engine.  sg is the   *)
(* cached Subgraph, which a resolved operation replaces (Return).           *)

\* the collection argument of the hook
hookCollection == "library"

\* query.queryFn: updateSubgraph(api, entityUri, createSubgraph(), add,
\* remove, collection), the first operation of the hook
HookLoad(entityUri) ==
  /\ CanCall
  /\ ncalls = 0
  /\ sg = createSubgraph
  /\ StartQuery("updateSubgraph", entityUri, 0, hookCollection)
  /\ ncalls' = ncalls + 1
  /\ UNCHANGED <<sg, prev, passed, batch, hookVars>>

\* updateMutation.mutationFn: updateSubgraph(api, nodeId, currentGraph, add,
\* remove), with no collection argument
HookUpdate(nodeId) ==
  /\ CanCall
  /\ ncalls > 0
  /\ StartQuery("updateSubgraph", nodeId, 0, undefinedCollection)
  /\ ncalls' = ncalls + 1
  /\ UNCHANGED <<sg, prev, passed, batch, hookVars>>

\* relationshipNavigationMutation.mutationFn: updateSubgraphByRelationship(
\* api, selectedNodeId, relationshipUri, direction, currentGraph, add,
\* remove, collection)
HookNavigate(selectedNodeId, relationshipUri, direction) ==
  /\ ncalls > 0
  /\ CallUpdateSubgraphByRelationship(selectedNodeId, relationshipUri,
                                      direction, hookCollection)

NextHook ==
  \/ \E uri \in CallUris : HookLoad(uri)
  \/ \E uri \in CallUris : HookUpdate(uri)
  \/ \E n \in CallUris, d \in Directions : HookNavigate(n, "knows", d)
  \/ \E i \in 1..Len(slots) :
       \/ \E r \in QueryResponses : SubQueryThen(i, r)
       \/ \E e \in ErrorsOf(i) : SubQueryCatch(i, e)
       \/ \E r \in LabelResponses(slots[i].uri) : QueryLabelThen(i, r)
       \/ \E e \in ErrorsOf(i) : QueryLabelCatch(i, e)
       \/ \E r \in QueryResponses : DirectedThen(i, r)
       \/ \E e \in ErrorsOf(i) : DirectedReject(i, e)
  \/ QueryThen
  \/ QueryCatch
  \/ LabelSCall
  \/ LabelPCall
  \/ LabelOCall
  \/ MergeThen
  \/ Return

SpecHook == Init /\ [][NextHook]_vars

\* C35: every request sent on behalf of useGraphSubgraph, label lookups
\* included, carries the collection argument of the hook.
C35_CollectionScoped ==
  \A i \in 1..Len(sent) : sent[i].collection = hookCollection

-----------------------------------------------------------------------------
(* Activity pairing of handleGraphRag *)

GraphRagSettled ==
  /\ chat.chatMode = "graph-rag"
  /\ chat.phase \in {"returned", "thrown", "success", "rejected", "failed"}
  /\ NoLabelPending

\* C36: handleGraphRag never removes a label more often than it has added
\* it, and once the handler and every label lookup have settled, each label
\* it added has been removed exactly once.
C36_GraphRagActivityPairing ==
  chat.chatMode = "graph-rag" =>
    /\ \A l \in BagToSet(removes) : CopiesIn(l, removes) <= CopiesIn(l, adds)
    /\ GraphRagSettled =>
         \A l \in BagToSet(adds) : CopiesIn(l, removes) = CopiesIn(l, adds)

-----------------------------------------------------------------------------
(* vectorSearch (utils/vector-search.ts) and the row functions it chains:   *)
(* getGraphEmbeddings, addRowLabels, addRowDefinitions, addRowEmbeddings.   *)
(* op is the search in flight, slots the remote calls of its current stage. *)

SearchTerms == {"cats"}

\* api.embeddings(text) answers a list of vectors; a vector is a token here
Vectors == {<<>>, <<"v1">>}

\* socket.graphEmbeddingsQuery answers a list of terms
FoundTerms == {<<>>, <<Iri("A")>>, <<Iri("A"), Literal("x")>>, <<Iri("A"), Iri("B")>>}

DefinitionResponses(uri) ==
  IF uri = "A"
  THEN {<<>>, <<Triple(Iri(uri), Iri(SKOS_DEFINITION), Literal("A person"))>>}
  ELSE {<<>>}

searchAct(term) == "Search: " \o term

graphEmbeddingsAct == "Graph embedding search"

\* `limit || 10` in vectorSearch, then `limit ? limit : 10`
searchLimit(limit) == IF limit # 0 THEN limit ELSE 10

SearchOp(term, limit, collection) ==
  [kind |-> "search", term |-> term, limit |-> limit, collection |-> collection,
   stage |-> "embeddings", status |-> "pending", err |-> "", allErr |-> "",
   vecs |-> <<>>, rows |-> <<>>, out |-> <<>>]

InSearch(stage) == op.kind = "search" /\ op.stage = stage /\ op.status = "pending"

searchFrame == UNCHANGED <<sg, prev, passed, batch, hookVars, ncalls>>

\* vectorSearch up to its return: addActivity("Search: " + term), then
\* api.embeddings(term)
CallVectorSearch(term, collection, limit) ==
  /\ CanCall
  /\ op' = SearchOp(term, limit, collection)
  /\ slots' = <<>>
  /\ Effects(<<searchAct(term)>>, <<>>, <<[api |-> "embeddings", text |-> term]>>)
  /\ ncalls' = ncalls + 1
  /\ UNCHANGED <<sg, prev, passed, batch, hookVars>>

\* api.embeddings(term) resolved: the function getGraphEmbeddings returned
\* runs: add(act); socket.graphEmbeddingsQuery(vecs, limit, collection)
EmbeddingsThen(vecs) ==
  /\ InSearch("embeddings")
  /\ op.allErr = ""
  /\ LET sl == Slot("graphEmbeddings", "", graphEmbeddingsAct, "pending", "",
                    [api |-> "graphEmbeddingsQuery", vecs |-> vecs,
                     limit |-> searchLimit(searchLimit(op.limit)),
                     collection |-> op.collection]) IN
       /\ slots' = <<sl>>
       /\ Launch(<<sl>>)
  /\ op' = [op EXCEPT !.stage = "graphEmbeddings", !.vecs = vecs]
  /\ searchFrame

\* api.embeddings(term) rejected: no stage handles it but the final catch
EmbeddingsCatch(e) ==
  /\ InSearch("embeddings")
  /\ op.allErr = ""
  /\ op' = [op EXCEPT !.allErr = e]
  /\ UNCHANGED <<slots, adds, removes, activity, sent>>
  /\ searchFrame

\* the rows made of the entities found: IRI terms only
RECURSIVE rowsOf(_, _)
rowsOf(ents, vecs) ==
  IF ents = <<>> THEN <<>>
  ELSE IF Head(ents).t = "i"
  THEN <<[uri |-> Head(ents).i,
          target |-> IF vecs = <<>> THEN Undefined ELSE vecs[1]]>>
       \o rowsOf(Tail(ents), vecs)
  ELSE rowsOf(Tail(ents), vecs)

\* getGraphEmbeddings, .then: remove(act); the rows
GraphEmbeddingsThen(ents) ==
  /\ InSearch("graphEmbeddings")
  /\ slots[1].st = "pending"
  /\ slots' = [slots EXCEPT ![1].st = "ok"]
  /\ op' = [op EXCEPT !.stage = "found", !.rows = rowsOf(ents, op.vecs)]
  /\ Effects(<<>>, <<graphEmbeddingsAct>>, <<>>)
  /\ searchFrame

\* mutant: the catch rethrows without remove(act)
RowCatch_noRemove(i, e) ==
  /\ op.kind = "search"
  /\ slots[i].st = "pending"
  /\ slots' = [slots EXCEPT ![i].st = "err", ![i].err = e]
  /\ op' = [op EXCEPT !.allErr = IF @ = "" THEN e ELSE @]
  /\ UNCHANGED <<adds, removes, activity, sent>>
  /\ searchFrame

\* getGraphEmbeddings, addRowLabels, addRowDefinitions, addRowEmbeddings:
\* the .catch of a remote call: remove(act); throw err.  Promise.all
\* rejects with the first rejection it sees.
RowCatch(i, e) ==
  /\ op.kind = "search"
  /\ slots[i].st = "pending"
  /\ slots' = [slots EXCEPT ![i].st = "err", ![i].err = e]
  /\ op' = [op EXCEPT !.allErr = IF @ = "" THEN e ELSE @]
  /\ Effects(<<>>, <<slots[i].act>>, <<>>)
  /\ searchFrame

\* addRowLabels, addRowDefinitions, addRowEmbeddings: the .then of a remote
\* call: remove(act) in both branches; the answer is kept for the row
RowThen(i, r) ==
  /\ op.kind = "search"
  /\ slots[i].kind \in {"rowLabel", "rowDefinition", "rowEmbedding"}
  /\ slots[i].st = "pending"
  /\ slots' = [slots EXCEPT ![i].st = "ok", ![i].res = r]
  /\ Effects(<<>>, <<slots[i].act>>, <<>>)
  /\ UNCHANGED op
  /\ searchFrame

\* addRowLabels(entities) up to its return
RowLabelsCall ==
  /\ InSearch("found")
  /\ LET ss == [k \in 1..Len(op.rows) |->
                  Slot("rowLabel", op.rows[k].uri, "Label " \o op.rows[k].uri,
                       "pending", "",
                       Request(Iri(op.rows[k].uri), Iri(RDFS_LABEL), Undefined,
                               1, op.collection))] IN
       /\ slots' = ss
       /\ Launch(ss)
  /\ op' = [op EXCEPT !.stage = "labels"]
  /\ searchFrame

\* `t.length < 1 ? "" : t[0].o.v`
firstValue(t) == IF Len(t) < 1 THEN "" ELSE t[1].o.v

\* addRowDefinitions(entities) up to its return, on the rows addRowLabels
\* resolved to
RowDefinitionsCall ==
  /\ InSearch("labels") /\ AllOk
  /\ LET rows == [k \in 1..Len(op.rows) |->
                    [uri |-> op.rows[k].uri, label |-> firstValue(slots[k].res),
                     target |-> op.rows[k].target]]
         ss == [k \in 1..Len(rows) |->
                  Slot("rowDefinition", rows[k].uri, "Description " \o rows[k].uri,
                       "pending", "",
                       Request(Iri(rows[k].uri), Iri(SKOS_DEFINITION), Undefined,
                               1, op.collection))] IN
       /\ slots' = ss
       /\ Launch(ss)
       /\ op' = [op EXCEPT !.stage = "definitions", !.rows = rows]
  /\ searchFrame

\* the text addRowEmbeddings embeds: the description, or else the label
rowText(row) == IF row.description # "" THEN row.description ELSE row.label

\* "Embeddings " + text.substring(0, 20); every text here is shorter
embeddingsAct(text) == "Embeddings " \o text

\* addRowEmbeddings(entities) up to its return, on the rows
\* addRowDefinitions resolved to
RowEmbeddingsCall ==
  /\ InSearch("definitions") /\ AllOk
  /\ LET rows == [k \in 1..Len(op.rows) |->
                    [description |-> firstValue(slots[k].res)] @@ op.rows[k]]
         ss == [k \in 1..Len(rows) |->
                  Slot("rowEmbedding", rows[k].uri, embeddingsAct(rowText(rows[k])),
                       "pending", "",
                       [api |-> "embeddings", text |-> rowText(rows[k])])] IN
       /\ slots' = ss
       /\ Launch(ss)
       /\ op' = [op EXCEPT !.stage = "rowEmbeddings", !.rows = rows]
  /\ searchFrame

\* `row.label ? row.label : "n/a"`
labelOrNa(row) == IF row.label # "" THEN row.label ELSE "n/a"

\* the last .then: computeCosineSimilarity and sortSimilarity, which call
\* nothing remote and add no activity, then removeActivity(searchAct) and
\* the result.  The similarity values are left out of the rows.
SearchThen ==
  /\ InSearch("rowEmbeddings") /\ AllOk
  /\ op.allErr = ""
  /\ op' = [op EXCEPT !.stage = "done", !.status = "resolved",
                      !.out = [k \in 1..Len(op.rows) |->
                                 [uri |-> op.rows[k].uri,
                                  label |-> labelOrNa(op.rows[k])]]]
  /\ Effects(<<>>, <<searchAct(op.term)>>, <<>>)
  /\ UNCHANGED slots
  /\ searchFrame

\* computeCosineSimilarity throws for a row (the library, on a target or
\* an embedding it cannot use): the chain skips to the final catch
SimilarityThrows ==
  /\ InSearch("rowEmbeddings") /\ AllOk
  /\ op.rows # <<>>
  /\ op.allErr = ""
  /\ op' = [op EXCEPT !.allErr = "similarity failed"]
  /\ UNCHANGED <<slots, adds, removes, activity, sent>>
  /\ searchFrame

\* mutant: the final catch rethrows without removeActivity(searchAct)
SearchCatch_noRemove ==
  /\ op.kind = "search" /\ op.status = "pending" /\ op.allErr # ""
  /\ op' = [op EXCEPT !.status = "rejected", !.err = op.allErr]
  /\ UNCHANGED <<slots, adds, removes, activity, sent>>
  /\ searchFrame

\* the final .catch: removeActivity(searchAct); throw err
SearchCatch ==
  /\ op.kind = "search" /\ op.status = "pending" /\ op.allErr # ""
  /\ op' = [op EXCEPT !.status = "rejected", !.err = op.allErr]
  /\ Effects(<<>>, <<searchAct(op.term)>>, <<>>)
  /\ UNCHANGED slots
  /\ searchFrame

\* the caller sees the search settled and every remote call answered
SearchReturn ==
  /\ op.kind = "search" /\ op.status # "pending" /\ NonePending
  /\ op' = Idle
  /\ slots' = <<>>
  /\ adds' = EmptyBag
  /\ removes' = EmptyBag
  /\ sent' = <<>>
  /\ UNCHANGED <<activity, sg, prev, passed, batch, hookVars, ncalls>>

NextSearch ==
  \/ \E term \in SearchTerms, c \in Collections, l \in Limits :
       CallVectorSearch(term, c, l)
  \/ \E v \in Vectors : EmbeddingsThen(v)
  \/ \E e \in ErrorsOf(0) : EmbeddingsCatch(e)
  \/ \E ents \in FoundTerms : GraphEmbeddingsThen(ents)
  \/ \E i \in 1..Len(slots) :
       \/ \E e \in ErrorsOf(i) : RowCatch(i, e)
       \/ \E r \in LabelResponses(slots[i].uri) : slots[i].kind = "rowLabel" /\ RowThen(i, r)
       \/ \E r \in DefinitionResponses(slots[i].uri) : slots[i].kind = "rowDefinition" /\ RowThen(i, r)
       \/ \E r \in Vectors : slots[i].kind = "rowEmbedding" /\ RowThen(i, r)
  \/ RowLabelsCall
  \/ RowDefinitionsCall
  \/ RowEmbeddingsCall
  \/ SearchThen
  \/ SimilarityThrows
  \/ SearchCatch
  \/ SearchReturn

SpecSearch == Init /\ [][NextSearch]_vars

-----------------------------------------------------------------------------
(* Activity pairing of vectorSearch *)

FailedSlotErrors == {slots[k].err : k \in {j \in 1..Len(slots) : slots[j].st = "err"}}

\* C37: "Search: " + term is added with the first remote call of
\* vectorSearch, is active while the search is pending and has been removed
\* exactly once when it has resolved or rejected; a rejected search carries
\* the error of the stage that failed; every per-stage activity has been
\* removed as often as it was added, but for the calls still unanswered.
C37_VectorSearchActivity ==
  op.kind = "search" =>
    /\ sent[1] = [api |-> "embeddings", text |-> op.term]
    /\ CopiesIn(searchAct(op.term), adds) = 1
    /\ CopiesIn(searchAct(op.term), removes) = IF op.status = "pending" THEN 0 ELSE 1
    /\ op.status = "pending" => searchAct(op.term) \in activeLabels(activity)
    /\ op.status = "rejected" =>
         op.err \in FailedSlotErrors \cup {"request 0 failed", "similarity failed"}
    /\ op.status = "resolved" => FailedSlotErrors = {} /\ op.allErr = ""
    /\ \A act \in (BagToSet(adds) \cup BagToSet(removes)) \ {searchAct(op.term)} :
         CopiesIn(act, adds) - CopiesIn(act, removes) = PendingWith(act)

\* a search found two entities; the label lookup of the second one failed
\* while the first was still unanswered: the search has rejected with that
\* error, "Search: cats" has been removed once and "Label A" is still active
C37_Witness ==
  /\ op.kind = "search" /\ op.status = "rejected"
  /\ op.stage = "labels"
  /\ Len(slots) = 2
  /\ slots[1].st = "pending" /\ slots[2].st = "err"
  /\ op.err = slots[2].err
  /\ CopiesIn("Search: cats", removes) = 1
  /\ "Label A" \in activeLabels(activity)
  /\ "Label B" \notin activeLabels(activity)

-----------------------------------------------------------------------------
(* prepareMetadata (model/document-metadata.ts) *)

RDF_TYPE == "http://www.w3.org/1999/02/22-rdf-syntax-ns#type"

DIGITAL_DOCUMENT == "https://schema.org/DigitalDocument"

SCHEMA_URL == "https://schema.org/url"

SCHEMA_KEYWORDS == "https://schema.org/keywords"

DocIds == {"d1", "d2", "d3"}

Titles == {"", "T"}

Urls == {"", "http://u"}

KeywordLists == {<<>>, <<"k1">>, <<"k1", "k2">>, <<"k2", "k1">>, <<"k1", "k1">>}

\* DocumentParameters: every field is optional; an absent field is a name
\* outside the domain
DocumentParameters ==
  {[f \in d |-> CASE f = "title" -> t [] f = "url" -> u [] OTHER -> k] :
     d \in SUBSET {"title", "url", "keywords"},
     t \in Titles, u \in Urls, k \in KeywordLists}

has(params, f) == f \in DOMAIN params

\* `params.f != ""`: undefined != "" is true
notEmptyString(params, f) == ~(has(params, f) /\ params[f] = "")

\* `params.f ?? ""`
orEmptyString(params, f) == IF has(params, f) THEN params[f] ELSE ""

\* `params.keywords ?? []`
keywordsOf(params) == IF has(params, "keywords") THEN params["keywords"] ELSE <<>>

typeTriple(doc_id) == Triple(Iri(doc_id), Iri(RDF_TYPE), Iri(DIGITAL_DOCUMENT))

labelTriple(doc_id, title) == Triple(Iri(doc_id), Iri(RDFS_LABEL), Literal(title))

urlTriple(doc_id, url) == Triple(Iri(doc_id), Iri(SCHEMA_URL), Iri(url))

keywordTriple(doc_id, keyword) == Triple(Iri(doc_id), Iri(SCHEMA_KEYWORDS), Literal(keyword))

keywordTriples(doc_id, keywords) == [k \in 1..Len(keywords) |-> keywordTriple(doc_id, keywords[k])]

prepareMetadata(doc_id, params) ==
  <<typeTriple(doc_id)>>
  \o (IF notEmptyString(params, "title")
      THEN <<labelTriple(doc_id, orEmptyString(params, "title"))>> ELSE <<>>)
  \o (IF notEmptyString(params, "url")
      THEN <<urlTriple(doc_id, orEmptyString(params, "url"))>> ELSE <<>>)
  \o keywordTriples(doc_id, keywordsOf(params))

\* one call of prepareMetadata; the log keeps the last call and what it
\* returned
PrepareMetadata(doc_id, params) ==
  /\ log' = <<[fn |-> "prepareMetadata", doc_id |-> doc_id, params |-> params,
               value |-> prepareMetadata(doc_id, params)]>>
  /\ UNCHANGED <<engineVars, cacheVars, chatVars, error, session, hook>>

NextMetadata == \E doc_id \in DocIds, params \in DocumentParameters : PrepareMetadata(doc_id, params)

SpecMetadata == Init /\ [][NextMetadata]_vars

\* "present and non-empty"
presentNonEmpty(params, f) == has(params, f) /\ params[f] # ""

====
